---- MODULE Spec2Model ----
(***************************************************************************)
(* The local state / telemetry engine of neurodatahub-cli:                 *)
(*   neurodatahub/state.py      StateManager (state.json, load/save)        *)
(*   neurodatahub/telemetry.py  record_download_event, rate limiter         *)
(*                                                                         *)
(* The state file is modelled down to the directory entries and inodes the *)
(* code touches (state.json, state.json.tmp), its text as the sequence of  *)
(* lines json.dump(indent=2) writes: "{", one line per top-level key, "}". *)
(***************************************************************************)
EXTENDS Integers, Sequences, FiniteSets, TLC

(***************************************************************************)
(* Bounds of the model.                                                    *)
(***************************************************************************)
MaxRuns == 3          \* download events recorded in one behaviour of Spec
NumProcs == 3         \* concurrent CLI processes in SpecConc
MaxClock == 2         \* the clock runs 0..MaxClock ticks

Datasets == {"ds1", "ds2"}
NoDataset == ""       \* dataset_id None or "": falsy in `if dataset_id:`
DatasetArgs == Datasets \cup {NoDataset}

Procs == 1..NumProcs
Inodes == 1..(NumProcs + 2)

(***************************************************************************)
(* The persistent record (state.py:39-48).                                 *)
(***************************************************************************)
None == -1            \* last_privacy_notice_shown: None (never shown)

DEFAULT_STATE ==
    [successful_runs |-> 0,
     failed_runs |-> 0,
     per_dataset |-> <<>>,
     last_feedback_run_count |-> 0,
     telemetry_consent_given |-> FALSE,
     telemetry_consent_asked |-> FALSE,
     last_privacy_notice_shown |-> None,
     feedback_consent_given |-> FALSE]

\* A key the schema does not know (a file written by another version).
UnknownKey == "zz_unknown"

\* Python dicts keep insertion order: the schema's keys in DEFAULT_STATE's
\* order, then whatever else update() appended.
KeyOrder ==
    <<"successful_runs", "failed_runs", "per_dataset",
      "last_feedback_run_count", "telemetry_consent_given",
      "telemetry_consent_asked", "last_privacy_notice_shown",
      "feedback_consent_given", UnknownKey>>

\* A JSON value that is no number (a string, null) where a counter is
\* expected.  It is encoded as an integer no counter takes, so that TLC can
\* compare it with counters; IsNumber is Python's "supports += 1".
NonNumeric == -7
IsNumber(v) == v # NonNumeric

(***************************************************************************)
(* JSON text.  json.dump(state, f, indent=2) writes "{", one line per key  *)
(* and "}"; a file is the sequence of its lines.                           *)
(***************************************************************************)
OpenBrace == [key |-> "{", val |-> 0]
CloseBrace == [key |-> "}", val |-> 0]
Hole == [key |-> "\\0", val |-> 0]         \* bytes a write past the end left
ScalarText == [key |-> "5", val |-> 0]     \* valid JSON that is no object
GarbageText == [key |-> "invalid json {{{", val |-> 0]

KeysOf(s) == SelectSeq(KeyOrder, LAMBDA k : k \in DOMAIN s)

\* a dump that writes the schema's keys only
DumpDropsUnknown(s) ==
    LET ks == SelectSeq(KeysOf(s), LAMBDA k : k # UnknownKey)
    IN  <<OpenBrace>> \o [i \in 1..Len(ks) |-> [key |-> ks[i], val |-> s[ks[i]]]]
        \o <<CloseBrace>>

\* json.dump
Dump(s) ==
    LET ks == KeysOf(s)
    IN  <<OpenBrace>> \o [i \in 1..Len(ks) |-> [key |-> ks[i], val |-> s[ks[i]]]]
        \o <<CloseBrace>>

IsKeyLine(l) == l.key \notin {"{", "}", "\\0", "5", "invalid json {{{"}

IsObjectText(c) ==
    /\ Len(c) >= 2
    /\ c[1] = OpenBrace
    /\ c[Len(c)] = CloseBrace
    /\ \A i \in 2..(Len(c) - 1) : IsKeyLine(c[i])

\* The last line that holds key k (a repeated key: the last one wins).
LastLineOf(c, k) == CHOOSE i \in 2..(Len(c) - 1) :
                        /\ c[i].key = k
                        /\ \A j \in (i + 1)..(Len(c) - 1) : c[j].key # k

\* json.load: the dict of an object text; a scalar for other valid JSON;
\* JSONDecodeError for everything else (the empty file included).
Parse(c) ==
    IF IsObjectText(c)
    THEN [kind |-> "object",
          obj |-> [k \in {c[i].key : i \in 2..(Len(c) - 1)} |->
                      c[LastLineOf(c, k)].val]]
    ELSE IF c = <<ScalarText>>
    THEN [kind |-> "scalar", obj |-> <<>>]
    ELSE [kind |-> "error", obj |-> <<>>]

\* the update the wrong way round
MergeDefaultsWin(state) ==
    [k \in DOMAIN DEFAULT_STATE \cup DOMAIN state |->
        IF k \in DOMAIN DEFAULT_STATE THEN DEFAULT_STATE[k] ELSE state[k]]

\* merged_state = deepcopy(DEFAULT_STATE); merged_state.update(state)
Merge(state) ==
    [k \in DOMAIN DEFAULT_STATE \cup DOMAIN state |->
        IF k \in DOMAIN state THEN state[k] ELSE DEFAULT_STATE[k]]

(***************************************************************************)
(* The file system: two directory entries (0: no such file) and the text   *)
(* of every inode.                                                         *)
(***************************************************************************)
NoFile == 0

EmptyFs == [canon |-> NoFile, temp |-> NoFile, data |-> [i \in Inodes |-> <<>>]]

\* The file system holding `text` in state.json.
FsWith(text) == [EmptyFs EXCEPT !.canon = 1, !.data[1] = text]

Max(a, b) == IF a >= b THEN a ELSE b

\* write(2) of `chunk` at offset `off`: bytes between the old end and `off`
\* read back as zeros.
WriteAt(text, off, chunk) ==
    [i \in 1..Max(Len(text), off + Len(chunk)) |->
        IF i > off /\ i <= off + Len(chunk) THEN chunk[i - off]
        ELSE IF i <= Len(text) THEN text[i]
        ELSE Hole]

\* The lowest inode number nothing refers to.
FreeInode(fs, held) ==
    CHOOSE i \in Inodes :
        /\ i \notin ({fs.canon, fs.temp} \cup held)
        /\ \A j \in Inodes : j < i => j \in ({fs.canon, fs.temp} \cup held)

\* The kernel frees an inode no name and no descriptor refers to.  With no
\* descriptor open, inode numbers mean nothing and are renumbered
\* (state.json: 1, state.json.tmp: 2).
Gc(fs, held) ==
    IF held = {}
    THEN [canon |-> IF fs.canon = NoFile THEN NoFile ELSE 1,
          temp |-> IF fs.temp = NoFile THEN NoFile ELSE 2,
          data |-> [i \in Inodes |->
                      IF i = 1 /\ fs.canon # NoFile THEN fs.data[fs.canon]
                      ELSE IF i = 2 /\ fs.temp # NoFile THEN fs.data[fs.temp]
                      ELSE <<>>]]
    ELSE [fs EXCEPT !.data = [i \in Inodes |->
                      IF i \in ({fs.canon, fs.temp} \cup held)
                      THEN fs.data[i] ELSE <<>>]]

\* open(temp_file, "w"): creates the file or truncates the one that is there.
FsOpenW(fs, held) ==
    IF fs.temp # NoFile
    THEN [fs EXCEPT !.data[fs.temp] = <<>>]
    ELSE LET i == FreeInode(fs, held)
         IN  [fs EXCEPT !.temp = i, !.data[i] = <<>>]

FsWrite(fs, i, off, chunk) == [fs EXCEPT !.data[i] = WriteAt(@, off, chunk)]

\* temp_file.replace(self.state_file)
FsReplace(fs) == [fs EXCEPT !.canon = fs.temp, !.temp = NoFile]

\* temp_file.unlink()
FsUnlinkTemp(fs) == [fs EXCEPT !.temp = NoFile]

(***************************************************************************)
(* StateManager.load_state / save_state (state.py:111-174), run without    *)
(* interruption.  `unreadable`: open() or the read raises (permissions, an *)
(* I/O error).  `fault`: where save_state's try block raises, if at all.   *)
(***************************************************************************)
SaveFaults == {"none", "open", "write", "replace"}

Returned(state) == [state |-> state, raised |-> FALSE]
Raised == [state |-> DEFAULT_STATE, raised |-> TRUE]

\* load_state without its except clauses
LoadLetsDecodeErrorOut(fs, unreadable) ==
    IF fs.canon = NoFile \/ unreadable THEN Returned(DEFAULT_STATE)
    ELSE LET p == Parse(fs.data[fs.canon])
         IN  IF p.kind = "object" THEN Returned(Merge(p.obj)) ELSE Raised

\* load_state updating the file's record with the defaults
LoadDefaultsWin(fs, unreadable) ==
    IF fs.canon = NoFile \/ unreadable THEN Returned(DEFAULT_STATE)
    ELSE LET p == Parse(fs.data[fs.canon])
         IN  IF p.kind = "object" THEN Returned(MergeDefaultsWin(p.obj))
             ELSE Returned(DEFAULT_STATE)

\* What load_state makes of the text it read (state.py:125-137).
Loaded(text) ==
    LET p == Parse(text)
    IN  IF p.kind = "error" THEN DEFAULT_STATE         \* JSONDecodeError
        ELSE IF p.kind = "scalar" THEN DEFAULT_STATE   \* update() raises
        ELSE Merge(p.obj)

\* load_state: what it returns, and whether it raises (no path does)
Load(fs, unreadable) ==
    IF fs.canon = NoFile THEN Returned(DEFAULT_STATE)       \* not exists()
    ELSE IF unreadable THEN Returned(DEFAULT_STATE)         \* except Exception
    ELSE Returned(Loaded(fs.data[fs.canon]))

LoadState(fs, unreadable) == Load(fs, unreadable).state

\* What load_state leaves on disk: it opens the file for reading only.
FsAfterLoad(fs) == fs

\* save_state writing state.json itself, with no temporary file
SaveStateInPlace(fs, state, fault) ==
    IF fault = "open" THEN [fs |-> fs, ok |-> FALSE]
    ELSE IF fault = "write"
    THEN [fs |-> FsWith(SubSeq(Dump(state), 1, Len(Dump(state)) \div 2)),
          ok |-> FALSE]
    ELSE [fs |-> FsWith(Dump(state)), ok |-> fault = "none"]

SaveState(fs, state, fault) ==
    IF fault = "open"
    THEN [fs |-> Gc(FsUnlinkTemp(fs), {}), ok |-> FALSE]
    ELSE LET opened == FsOpenW(fs, {})
             text == Dump(state)
             half == FsWrite(opened, opened.temp, 0,
                             SubSeq(text, 1, Len(text) \div 2))
             full == FsWrite(opened, opened.temp, 0, text)
         IN  IF fault = "write"
             THEN [fs |-> Gc(FsUnlinkTemp(half), {}), ok |-> FALSE]
             ELSE IF fault = "replace"
             THEN [fs |-> Gc(FsUnlinkTemp(full), {}), ok |-> FALSE]
             ELSE [fs |-> Gc(FsReplace(full), {}), ok |-> TRUE]

(***************************************************************************)
(* The read-modify-write methods (state.py:176-339).  Each returns the     *)
(* file system it leaves and whether an exception left the method.         *)
(***************************************************************************)
ZeroStats == [success |-> 0, fail |-> 0]

WithEntry(per_dataset, d) ==
    IF d \in DOMAIN per_dataset THEN per_dataset
    ELSE per_dataset @@ (d :> ZeroStats)

\* the global counter bumped once more inside the dataset branch
IncrementedTwiceForDataset(state, counter, sub, d) ==
    LET s1 == [state EXCEPT ![counter] = @ + (IF d = NoDataset THEN 1 ELSE 2)]
    IN  IF d # NoDataset
        THEN [s1 EXCEPT !.per_dataset =
                 [WithEntry(@, d) EXCEPT ![d][sub] = @ + 1]]
        ELSE s1

\* state[counter] += 1, and the per-dataset counter when dataset_id is truthy
Incremented(state, counter, sub, d) ==
    LET s1 == [state EXCEPT ![counter] = @ + 1]
    IN  IF d # NoDataset
        THEN [s1 EXCEPT !.per_dataset =
                 [WithEntry(@, d) EXCEPT ![d][sub] = @ + 1]]
        ELSE s1

IncrementRun(fs, counter, sub, d, unreadable, fault) ==
    LET state == LoadState(fs, unreadable)
    IN  IF ~IsNumber(state[counter])
        THEN [fs |-> fs, raised |-> TRUE]          \* TypeError at "+= 1"
        ELSE [fs |-> SaveState(fs, Incremented(state, counter, sub, d), fault).fs,
              raised |-> FALSE]

increment_successful_run(fs, d, unreadable, fault) ==
    IncrementRun(fs, "successful_runs", "success", d, unreadable, fault)

increment_failed_run(fs, d, unreadable, fault) ==
    IncrementRun(fs, "failed_runs", "fail", d, unreadable, fault)

get_successful_runs(fs) == LoadState(fs, FALSE).successful_runs
get_failed_runs(fs) == LoadState(fs, FALSE).failed_runs
get_last_feedback_run_count(fs) == LoadState(fs, FALSE).last_feedback_run_count

get_dataset_stats(fs, d) ==
    LET per_dataset == LoadState(fs, FALSE).per_dataset
    IN  IF d \in DOMAIN per_dataset THEN per_dataset[d] ELSE ZeroStats

has_telemetry_consent(fs, unreadable) ==
    LoadState(fs, unreadable).telemetry_consent_given

was_telemetry_consent_asked(fs) == LoadState(fs, FALSE).telemetry_consent_asked

\* the consent written into a fresh record instead of the loaded one
SetConsentOnDefaults(fs, consented, unreadable, fault) ==
    SaveState(fs, [DEFAULT_STATE EXCEPT !.telemetry_consent_given = consented,
                                        !.telemetry_consent_asked = TRUE],
              fault).fs

\* the consent written without the asked flag
SetConsentForgetsAsked(fs, consented, unreadable, fault) ==
    SaveState(fs, [LoadState(fs, unreadable) EXCEPT
                      !.telemetry_consent_given = consented], fault).fs

set_telemetry_consent(fs, consented, unreadable, fault) ==
    LET state == LoadState(fs, unreadable)
    IN  SaveState(fs, [state EXCEPT !.telemetry_consent_given = consented,
                                    !.telemetry_consent_asked = TRUE], fault).fs

\* the cursor update saving the record as it was loaded
UpdateCursorKeepsOld(fs, run_count, unreadable, fault) ==
    SaveState(fs, LoadState(fs, unreadable), fault).fs

\* the cursor written one past the run count it was given
UpdateCursorOneAhead(fs, run_count, unreadable, fault) ==
    SaveState(fs, [LoadState(fs, unreadable) EXCEPT
                      !.last_feedback_run_count = run_count + 1], fault).fs

update_last_feedback_run_count(fs, run_count, unreadable, fault) ==
    LET state == LoadState(fs, unreadable)
    IN  SaveState(fs, [state EXCEPT !.last_feedback_run_count = run_count],
                  fault).fs

\* the feedback consent written into a fresh record instead of the loaded one
SetFeedbackConsentOnDefaults(fs, consented, unreadable, fault) ==
    SaveState(fs, [DEFAULT_STATE EXCEPT !.feedback_consent_given = consented],
              fault).fs

set_feedback_consent(fs, consented, unreadable, fault) ==
    LET state == LoadState(fs, unreadable)
    IN  SaveState(fs, [state EXCEPT !.feedback_consent_given = consented],
                  fault).fs

mark_privacy_notice_shown(fs, utcnow, unreadable, fault) ==
    LET state == LoadState(fs, unreadable)
    IN  SaveState(fs, [state EXCEPT !.last_privacy_notice_shown = utcnow],
                  fault).fs

\* the reset zeroing the counters of the loaded record only
ResetKeepsFlags(fs, fault) ==
    SaveState(fs, [LoadState(fs, FALSE) EXCEPT !.successful_runs = 0,
                                               !.failed_runs = 0,
                                               !.per_dataset = <<>>,
                                               !.last_feedback_run_count = 0],
              fault).fs

reset_state(fs, fault) == SaveState(fs, DEFAULT_STATE, fault).fs

(***************************************************************************)
(* telemetry.py: the in-memory rate limiter, the sender and                *)
(* record_download_event.  The clock counts ticks of TickSeconds seconds.  *)
(***************************************************************************)
MAX_EVENTS_PER_MINUTE == 10
RATE_LIMIT_WINDOW == 60
TickSeconds == 30

\* What requests.post does: a status code, or an exception.
NetOutcomes == {"200", "429", "500", "timeout", "connection_error", "exception"}

\* _event_timestamps after the pruning _is_rate_limited does
Pruned(timestamps, current_time) ==
    SelectSeq(timestamps,
              LAMBDA t : (current_time - t) * TickSeconds < RATE_LIMIT_WINDOW)

\* the check counting every timestamp, stale ones included
IsRateLimitedNoPrune(timestamps, current_time) ==
    Len(timestamps) >= MAX_EVENTS_PER_MINUTE

_is_rate_limited(timestamps, current_time) ==
    Len(Pruned(timestamps, current_time)) >= MAX_EVENTS_PER_MINUTE

_build_download_event_payload(dataset_name, succeeded) ==
    [type |-> "download", dataset |-> dataset_name, succeeded |-> succeeded]

\* What a sender hands back: its return value, and whether it raised.
Sent(ok) == [ok |-> ok, raised |-> FALSE]

\* the sender taking every 2xx status for success
SendAcceptsAny2xx(outcome) ==
    Sent(outcome \in {"200", "201", "204"})

_send_telemetry_event(outcome) ==
    IF outcome = "timeout" THEN Sent(FALSE)                \* except Timeout
    ELSE IF outcome = "connection_error" THEN Sent(FALSE)  \* RequestException
    ELSE IF outcome = "exception" THEN Sent(FALSE)         \* except Exception
    ELSE IF outcome = "200" THEN Sent(TRUE)
    ELSE IF outcome = "429" THEN Sent(FALSE)
    ELSE Sent(FALSE)

\* the call without its consent check
RecordSendsWithoutConsent(fs, timestamps, now, dataset_name, succeeded, outcome, unreadable1, unreadable2, fault) ==
    LET inc == IF succeeded
               THEN increment_successful_run(fs, dataset_name, unreadable1, fault)
               ELSE increment_failed_run(fs, dataset_name, unreadable1, fault)
    IN  [fs |-> inc.fs, timestamps |-> timestamps, raised |-> inc.raised,
         posts |-> IF inc.raised THEN <<>>
                   ELSE <<_build_download_event_payload(dataset_name, succeeded)>>]

\* the call sending a second time when the first POST failed
RecordRetriesFailedSend(fs, timestamps, now, dataset_name, succeeded, outcome, unreadable1, unreadable2, fault) ==
    LET inc == IF succeeded
               THEN increment_successful_run(fs, dataset_name, unreadable1, fault)
               ELSE increment_failed_run(fs, dataset_name, unreadable1, fault)
        quiet == [fs |-> inc.fs, timestamps |-> timestamps, posts |-> <<>>,
                  raised |-> FALSE]
        payload == _build_download_event_payload(dataset_name, succeeded)
    IN  IF inc.raised THEN [quiet EXCEPT !.raised = TRUE]
        ELSE IF ~has_telemetry_consent(inc.fs, unreadable2) THEN quiet
        ELSE IF _is_rate_limited(timestamps, now)
        THEN [quiet EXCEPT !.timestamps = Pruned(timestamps, now)]
        ELSE IF _send_telemetry_event(outcome).ok
        THEN [quiet EXCEPT !.posts = <<payload>>,
                           !.timestamps = Append(Pruned(timestamps, now), now)]
        ELSE [quiet EXCEPT !.posts = <<payload, payload>>,
                           !.timestamps = Pruned(timestamps, now)]

\* the call without its rate-limit check
RecordIgnoresRateLimit(fs, timestamps, now, dataset_name, succeeded, outcome, unreadable1, unreadable2, fault) ==
    LET inc == IF succeeded
               THEN increment_successful_run(fs, dataset_name, unreadable1, fault)
               ELSE increment_failed_run(fs, dataset_name, unreadable1, fault)
        quiet == [fs |-> inc.fs, timestamps |-> timestamps, posts |-> <<>>,
                  raised |-> FALSE]
    IN  IF inc.raised THEN [quiet EXCEPT !.raised = TRUE]
        ELSE IF ~has_telemetry_consent(inc.fs, unreadable2) THEN quiet
        ELSE [quiet EXCEPT
                 !.posts = <<_build_download_event_payload(dataset_name, succeeded)>>,
                 !.timestamps = IF _send_telemetry_event(outcome).ok
                                THEN Append(Pruned(timestamps, now), now)
                                ELSE Pruned(timestamps, now)]

\* The call as a whole: the file system and the timestamps it leaves, the
\* POSTs it made, and whether an exception reached the caller.
\* unreadable1 / unreadable2: the two load_state calls; fault: the save.
record_download_event(fs, timestamps, now, dataset_name, succeeded, outcome, unreadable1, unreadable2, fault) ==
    LET inc == IF succeeded
               THEN increment_successful_run(fs, dataset_name, unreadable1, fault)
               ELSE increment_failed_run(fs, dataset_name, unreadable1, fault)
        quiet == [fs |-> inc.fs, timestamps |-> timestamps, posts |-> <<>>,
                  raised |-> FALSE]
    IN  IF inc.raised THEN [quiet EXCEPT !.raised = TRUE]
        ELSE IF ~has_telemetry_consent(inc.fs, unreadable2) THEN quiet
        ELSE IF _is_rate_limited(timestamps, now)
        THEN [quiet EXCEPT !.timestamps = Pruned(timestamps, now)]
        ELSE [quiet EXCEPT
                 !.posts = <<_build_download_event_payload(dataset_name, succeeded)>>,
                 !.timestamps = IF _send_telemetry_event(outcome).ok
                                THEN Append(Pruned(timestamps, now), now)
                                ELSE Pruned(timestamps, now)]

(***************************************************************************)
(* feedback.py: the scheduling gate and the sender.                        *)
(***************************************************************************)
FEEDBACK_SCHEDULE == {1, 3, 10, 30, 50}
FEEDBACK_INTERVAL_AFTER_50 == 50
LastScheduled == 50           \* the literal of "current_runs > 50"

\* the gate prompting again at a count it has already prompted at
ShouldPromptIgnoresLast(current_runs, last_feedback_run, force) ==
    \/ force
    \/ current_runs \in FEEDBACK_SCHEDULE
    \/ /\ current_runs > LastScheduled
       /\ current_runs % FEEDBACK_INTERVAL_AFTER_50 = 0
       /\ current_runs # last_feedback_run

\* the gate with no cadence after the early schedule
ShouldPromptScheduleOnly(current_runs, last_feedback_run, force) ==
    \/ force
    \/ current_runs \in FEEDBACK_SCHEDULE /\ current_runs # last_feedback_run

\* the gate applying the schedule to a forced prompt too
ShouldPromptForceScheduled(current_runs, last_feedback_run, force) ==
    IF current_runs \in FEEDBACK_SCHEDULE
    THEN current_runs # last_feedback_run
    ELSE force

_should_prompt_feedback(current_runs, last_feedback_run, force) ==
    IF force THEN TRUE
    ELSE IF current_runs \in FEEDBACK_SCHEDULE
    THEN current_runs # last_feedback_run
    ELSE IF /\ current_runs > LastScheduled
            /\ current_runs % FEEDBACK_INTERVAL_AFTER_50 = 0
    THEN current_runs # last_feedback_run
    ELSE FALSE

_send_feedback_event(outcome) ==
    IF outcome = "timeout" THEN Sent(FALSE)                \* except Timeout
    ELSE IF outcome = "connection_error" THEN Sent(FALSE)  \* RequestException
    ELSE IF outcome = "exception" THEN Sent(FALSE)         \* except Exception
    ELSE IF outcome = "200" THEN Sent(TRUE)
    ELSE Sent(FALSE)

\* detailed_data: nothing, or what the selections collected
NoDetails == <<>>
SomeDetails == [career_stage |-> "PhD"]

\* payload.update(detailed_data) when detailed_data is not empty
_build_feedback_payload(rating, detail_level, detailed_data) ==
    [k \in {"type", "feedback_level", "feedback_rating"}
            \cup DOMAIN detailed_data |->
        IF k \in DOMAIN detailed_data THEN detailed_data[k]
        ELSE IF k = "type" THEN "feedback"
        ELSE IF k = "feedback_level" THEN detail_level
        ELSE rating]

NoRating == ""
\* flow: whether maybe_prompt_feedback was the last call, the force flag it
\* got, the run count and the cursor it read, whether the gate let it
\* through, the prompts it put to the user, the rating it got, the prompts
\* at which Ctrl-C or end of input came, and its state writes and POSTs in
\* the order the code makes them.
NoFlow ==
    [called |-> FALSE, force |-> FALSE, runs |-> 0, last |-> 0,
     prompted |-> FALSE, asked |-> <<>>, rating |-> NoRating,
     interrupts |-> <<>>, trace |-> <<>>]

(***************************************************************************)
(* feedback.py: the prompts and maybe_prompt_feedback (feedback.py:61-153,  *)
(* 291-353, 441-532).  The user's answers, the disk and the network are    *)
(* the call's inputs; Interrupt is Ctrl-C or end of input at a prompt.     *)
(***************************************************************************)
Interrupt == "^C"
NoLogPath == ""                 \* _current_download_log_path is None
LogPaths == {NoLogPath, "download.log"}
\* the answers drawn at the rating menu ("2", "3" and "4" go the way of "1")
RatingChoices == {"1", "5", "6", Interrupt}
Messages == {"", "slow mirrors", Interrupt}
DetailChoices == {"1", "2", Interrupt}
Selections == {NoDetails, SomeDetails}
FlowOutcomes == {"200", "timeout"}
JsonSummary == "{\"error_summary\": \"none\"}"
\* a pasted line that is no JSON and names a home directory and an address
PiiPaste == "ERROR /home/alice from 10.0.0.1"
Pastes == {"", Interrupt, "{}", JsonSummary, "no json", PiiPaste}

PrivacyNoticeDays == 100
SecondsPerDay == 86400

\* (datetime.utcnow() - last_shown_dt).days, the clock counted in ticks
DaysSince(last_shown, utcnow) ==
    ((utcnow - last_shown) * TickSeconds) \div SecondsPerDay

\* the notice due only after the threshold has been passed
ShouldShowStrictlyAfter(fs, utcnow, days_threshold) ==
    LET last_shown == LoadState(fs, FALSE).last_privacy_notice_shown
    IN  IF last_shown = None THEN TRUE
        ELSE IF ~IsNumber(last_shown) THEN TRUE
        ELSE DaysSince(last_shown, utcnow) > days_threshold

should_show_privacy_notice(fs, utcnow, days_threshold) ==
    LET last_shown == LoadState(fs, FALSE).last_privacy_notice_shown
    IN  IF last_shown = None THEN TRUE
        ELSE IF ~IsNumber(last_shown) THEN TRUE     \* ValueError, AttributeError
        ELSE DaysSince(last_shown, utcnow) >= days_threshold

_show_privacy_notice_if_needed(fs, utcnow, fault) ==
    IF should_show_privacy_notice(fs, utcnow, PrivacyNoticeDays)
    THEN mark_privacy_notice_shown(fs, utcnow, FALSE, fault)
    ELSE fs

\* message[:300]: the messages drawn here are shorter than 300 characters
Sliced(message) == message

\* the rating returned, NoRating for None
_get_feedback_rating(choice, message) ==
    IF choice = Interrupt THEN NoRating
    ELSE IF choice = "1" THEN "Bad"
    ELSE IF choice = "2" THEN "Fine"
    ELSE IF choice = "3" THEN "Good"
    ELSE IF choice = "4" THEN "Excellent"
    ELSE IF choice = "5"
    THEN IF message = Interrupt THEN NoRating
         ELSE IF message # "" THEN Sliced(message) ELSE NoRating
    ELSE NoRating

\* the prompts _get_feedback_rating puts to the user
RatingPrompts(choice) ==
    IF choice = "5" THEN <<"rating", "message">> ELSE <<"rating">>

\* the prompts of _get_feedback_rating at which the input was cut
RatingInterrupts(choice, message) ==
    IF choice = Interrupt THEN <<"rating">>
    ELSE IF choice = "5" /\ message = Interrupt THEN <<"message">>
    ELSE <<>>

_get_feedback_detail_level(detail_choice) ==
    IF detail_choice = Interrupt THEN "quick"
    ELSE IF detail_choice = "1" THEN "quick"
    ELSE "detailed"

\* _get_detailed_feedback_selections (feedback.py:156-288): six prompts in
\* one try block.  An answer maps to the value stored, NoValue for the
\* choices that map to None and for text that is empty once stripped.
NoValue == ""
Fields ==
    <<"career_stage", "experience_years", "research_area", "use_case",
      "institution", "github_link">>
ChoiceTexts == <<"1", "2", "3", "4", "5", "6", "7", "8">>
stage_map ==
    <<"BSc/Undergrad", "Masters", "PhD", "Postdoc", "Faculty", "Industry",
      "Other", NoValue>>
years_map == <<"<1 year", "1-3 years", "3-5 years", "5+ years", NoValue>>
area_map ==
    <<"Neuroscience", "Psychology", "CS/AI/ML", "Medicine/Clinical",
      "Statistics", "Other", NoValue>>
usage_map ==
    <<"Teaching", "Research", "Clinical", "Meta-Analysis", "Methods", "Other",
      NoValue>>
Stripped(text) == IF text = " " THEN "" ELSE text

FieldValue(i, answer) ==
    LET n == CHOOSE k \in DOMAIN ChoiceTexts : ChoiceTexts[k] = answer
    IN  IF i = 1 THEN stage_map[n]
        ELSE IF i = 2 THEN years_map[n]
        ELSE IF i = 3 THEN area_map[n]
        ELSE IF i = 4 THEN usage_map[n]
        ELSE Stripped(answer)

\* the answers to the six prompts: every field answered, every field left
\* at its default, and the input cut at each prompt in turn
FullAnswers == <<"3", "2", "1", "2", "MIT", " ">>
DefaultAnswers == <<"8", "5", "7", "7", "", "">>
CutAt(i) == [k \in DOMAIN Fields |-> IF k = i THEN Interrupt ELSE FullAnswers[k]]
AnswerSequences ==
    {FullAnswers, DefaultAnswers} \cup {CutAt(i) : i \in DOMAIN Fields}

\* the first prompt at which the input was cut, one past the last if none
CutIndex(answers) ==
    IF \E i \in DOMAIN answers : answers[i] = Interrupt
    THEN CHOOSE i \in DOMAIN answers :
             /\ answers[i] = Interrupt
             /\ \A j \in 1..(i - 1) : answers[j] # Interrupt
    ELSE Len(answers) + 1

\* the selections dropping what was collected when the input is cut
SelectionsLostOnInterrupt(answers) ==
    LET stop == CutIndex(answers)
        kept == {i \in DOMAIN Fields :
                    /\ stop > Len(Fields)
                    /\ FieldValue(i, answers[i]) # NoValue}
    IN  [f \in {Fields[i] : i \in kept} |->
            FieldValue(CHOOSE i \in kept : Fields[i] = f,
                       answers[CHOOSE i \in kept : Fields[i] = f])]

_get_detailed_feedback_selections(answers) ==
    LET stop == CutIndex(answers)
        kept == {i \in DOMAIN Fields :
                    /\ i < stop
                    /\ FieldValue(i, answers[i]) # NoValue}
    IN  [f \in {Fields[i] : i \in kept} |->
            FieldValue(CHOOSE i \in kept : Fields[i] = f,
                       answers[CHOOSE i \in kept : Fields[i] = f])]

\* the prompts _get_detailed_feedback_selections puts to the user
SelectionPrompts(answers) ==
    SubSeq(Fields, 1, IF CutIndex(answers) > Len(Fields) THEN Len(Fields)
                      ELSE CutIndex(answers))

SelectionInterrupts(answers) ==
    IF CutIndex(answers) > Len(Fields) THEN <<>>
    ELSE <<Fields[CutIndex(answers)]>>

\* the summary returned: none (None), empty (falsy JSON), object or text
NoSummary == [kind |-> "none", text |-> ""]

_show_optional_log_analysis_prompt(log_file_path, pasted) ==
    IF log_file_path = NoLogPath THEN NoSummary
    ELSE IF pasted = Interrupt THEN NoSummary
    ELSE IF pasted = "" THEN NoSummary
    ELSE IF pasted = JsonSummary THEN [kind |-> "object", text |-> pasted]
    ELSE IF pasted = "{}" THEN [kind |-> "empty", text |-> pasted]
    ELSE [kind |-> "text", text |-> pasted]         \* JSONDecodeError

\* `if log_summary:`
Truthy(log_summary) == log_summary.kind \in {"object", "text"}

FollowUpPayload(rating, log_summary) ==
    [type |-> "feedback_log_followup", original_rating |-> rating,
     log_analysis |-> log_summary.text]

\* What the call read before the gate.
Started(force, current_runs, last_feedback_run) ==
    [NoFlow EXCEPT !.called = TRUE, !.force = force, !.runs = current_runs,
                   !.last = last_feedback_run]

\* `if not _should_prompt_feedback(...): return`
FlowNotPrompted(fs, started) ==
    [fs |-> fs, posts |-> <<>>, raised |-> FALSE, flow |-> started]

\* "current_runs > 50" on a run count that is not a number: TypeError
FlowGateRaised(fs, started) ==
    [fs |-> fs, posts |-> <<>>, raised |-> TRUE, flow |-> started]

\* `if not rating:` with the cursor update of feedback.py:474
FlowCancelled(fs, started, choice, fault) ==
    [fs |-> update_last_feedback_run_count(fs, started.runs, FALSE, fault),
     posts |-> <<>>, raised |-> FALSE,
     flow |-> [started EXCEPT !.prompted = TRUE,
                              !.asked = RatingPrompts(choice),
                              !.trace = @ \o <<"save:cursor">>]]

\* `if not rating:` returning at once
FlowCancelledKeepsCursor(fs, started, choice, fault) ==
    [fs |-> fs, posts |-> <<>>, raised |-> FALSE,
     flow |-> [started EXCEPT !.prompted = TRUE,
                              !.asked = RatingPrompts(choice)]]

\* the flow of a consent that a later prompt can withdraw: an interrupt at the
\* detail-level prompt ends the call with nothing sent
FlowRatedDetailCancels(fs, started, log_file_path, choice, rating, detail_choice, answers, outcome, pasted, fault) ==
    LET fs1 == set_feedback_consent(fs, TRUE, FALSE, fault)
        cancelled == detail_choice = Interrupt
        payload == _build_feedback_payload(
                       rating, _get_feedback_detail_level(detail_choice),
                       NoDetails)
    IN  [fs |-> update_last_feedback_run_count(fs1, started.runs, FALSE, fault),
         posts |-> IF cancelled THEN <<>> ELSE <<payload>>,
         raised |-> FALSE,
         flow |-> [started EXCEPT
                      !.prompted = TRUE, !.rating = rating,
                      !.asked = RatingPrompts(choice) \o <<"detail_level">>,
                      !.trace = @ \o <<"save:feedback_consent">>
                                  \o (IF cancelled THEN <<>>
                                      ELSE <<"post:feedback">>)
                                  \o <<"save:cursor">>]]

\* the flow writing the cursor only after the log-analysis prompt has
\* returned: an interrupt at that prompt ends the call with the cursor unsaved
FlowRatedCursorAfterLogPrompt(fs, started, log_file_path, choice, rating, detail_choice, answers, outcome, pasted, fault) ==
    LET fs1 == set_feedback_consent(fs, TRUE, FALSE, fault)
        detail_level == _get_feedback_detail_level(detail_choice)
        payload == _build_feedback_payload(rating, detail_level, NoDetails)
        success == _send_feedback_event(outcome).ok
        offered == log_file_path # NoLogPath /\ success
        aborted == offered /\ pasted = Interrupt
        log_summary == _show_optional_log_analysis_prompt(log_file_path, pasted)
        followed == offered /\ Truthy(log_summary)
    IN  [fs |-> IF aborted THEN fs1
                ELSE update_last_feedback_run_count(fs1, started.runs, FALSE,
                                                    fault),
         posts |-> IF followed
                   THEN <<payload, FollowUpPayload(rating, log_summary)>>
                   ELSE <<payload>>,
         raised |-> FALSE,
         flow |-> [started EXCEPT
                      !.prompted = TRUE, !.rating = rating,
                      !.asked = RatingPrompts(choice) \o <<"detail_level">>
                                \o (IF offered THEN <<"log_analysis">>
                                    ELSE <<>>),
                      !.trace = @ \o <<"save:feedback_consent",
                                       "post:feedback">>
                                  \o (IF offered THEN <<"prompt:log_analysis">>
                                      ELSE <<>>)
                                  \o (IF aborted THEN <<>>
                                      ELSE <<"save:cursor">>)
                                  \o (IF followed THEN <<"post:followup">>
                                      ELSE <<>>)]]

\* feedback.py:477-527, a rating in hand.  What the follow-up POST returns
\* changes only what is printed.
FlowRated(fs, started, log_file_path, choice, rating, detail_choice, answers, outcome, pasted, fault) ==
    LET fs1 == set_feedback_consent(fs, TRUE, FALSE, fault)
        detail_level == _get_feedback_detail_level(detail_choice)
        detailed == detail_level = "detailed"
        detailed_data == IF detailed
                         THEN _get_detailed_feedback_selections(answers)
                         ELSE NoDetails
        payload == _build_feedback_payload(rating, detail_level, detailed_data)
        success == _send_feedback_event(outcome).ok
        fs2 == update_last_feedback_run_count(fs1, started.runs, FALSE, fault)
        offered == log_file_path # NoLogPath /\ success
        log_summary == _show_optional_log_analysis_prompt(log_file_path, pasted)
        followed == offered /\ Truthy(log_summary)
        asked == RatingPrompts(choice) \o <<"detail_level">>
                 \o (IF detailed THEN SelectionPrompts(answers) ELSE <<>>)
                 \o (IF offered THEN <<"log_analysis">> ELSE <<>>)
        interrupts ==
            (IF detail_choice = Interrupt THEN <<"detail_level">> ELSE <<>>)
            \o (IF detailed THEN SelectionInterrupts(answers) ELSE <<>>)
            \o (IF offered /\ pasted = Interrupt THEN <<"log_analysis">>
                ELSE <<>>)
    IN  [fs |-> fs2,
         posts |-> IF followed
                   THEN <<payload, FollowUpPayload(rating, log_summary)>>
                   ELSE <<payload>>,
         raised |-> FALSE,
         flow |-> [started EXCEPT
                      !.prompted = TRUE, !.asked = asked, !.rating = rating,
                      !.interrupts = @ \o interrupts,
                      !.trace = @ \o <<"save:feedback_consent",
                                       "post:feedback", "save:cursor">>
                                  \o (IF offered THEN <<"prompt:log_analysis">>
                                      ELSE <<>>)
                                  \o (IF followed THEN <<"post:followup">>
                                      ELSE <<>>)]]

\* the call leaving the cursor alone when no rating was chosen
MaybePromptKeepsCursorOnCancel(fs, utcnow, force, log_file_path, choice, message, detail_choice, answers, outcome, pasted, fault) ==
    LET current_runs == get_successful_runs(fs)
        last_feedback_run == get_last_feedback_run_count(fs)
        started == Started(force, current_runs, last_feedback_run)
        fs1 == _show_privacy_notice_if_needed(fs, utcnow, fault)
        rating == _get_feedback_rating(choice, message)
        asking == [started EXCEPT
                      !.interrupts = RatingInterrupts(choice, message),
                      !.trace = IF fs1 # fs THEN <<"save:privacy_notice">>
                                ELSE <<>>]
    IN  IF ~force /\ ~IsNumber(current_runs) THEN FlowGateRaised(fs, started)
        ELSE IF ~_should_prompt_feedback(current_runs, last_feedback_run, force)
        THEN FlowNotPrompted(fs, started)
        ELSE IF rating = NoRating
        THEN FlowCancelledKeepsCursor(fs1, asking, choice, fault)
        ELSE FlowRated(fs1, asking, log_file_path, choice, rating,
                       detail_choice, answers, outcome, pasted, fault)

maybe_prompt_feedback(fs, utcnow, force, log_file_path, choice, message, detail_choice, answers, outcome, pasted, fault) ==
    LET current_runs == get_successful_runs(fs)
        last_feedback_run == get_last_feedback_run_count(fs)
        started == Started(force, current_runs, last_feedback_run)
        fs1 == _show_privacy_notice_if_needed(fs, utcnow, fault)
        rating == _get_feedback_rating(choice, message)
        asking == [started EXCEPT
                      !.interrupts = RatingInterrupts(choice, message),
                      !.trace = IF fs1 # fs THEN <<"save:privacy_notice">>
                                ELSE <<>>]
    IN  IF ~force /\ ~IsNumber(current_runs) THEN FlowGateRaised(fs, started)
        ELSE IF ~_should_prompt_feedback(current_runs, last_feedback_run, force)
        THEN FlowNotPrompted(fs, started)
        ELSE IF rating = NoRating
        THEN FlowCancelled(fs1, asking, choice, fault)
        ELSE FlowRated(fs1, asking, log_file_path, choice, rating,
                       detail_choice, answers, outcome, pasted, fault)

(***************************************************************************)
(* telemetry.py:41-57: the session id, a module global.  uuid is what      *)
(* uuid.uuid4() hands out, drawn only when the global is still None.       *)
(***************************************************************************)
NoSession == ""
Tokens == {"a1b2c3d4", "0f9e8d7c"}

\* a new id on every access
SessionIdRegenerated(session_id, uuid) ==
    CHOOSE t \in Tokens : t # session_id

\* the id returned, which is also the value the global has afterwards
_get_session_id(session_id, uuid) ==
    IF session_id = NoSession THEN uuid ELSE session_id

\* telemetry.py:244-261: the projection shown to the user
get_telemetry_status(fs, session_id, uuid) ==
    [consent_given |-> has_telemetry_consent(fs, FALSE),
     consent_asked |-> was_telemetry_consent_asked(fs),
     successful_runs |-> get_successful_runs(fs),
     failed_runs |-> get_failed_runs(fs),
     session_id |-> _get_session_id(session_id, uuid)]

(***************************************************************************)
(* log_analysis.py:19-65: sanitize_text.  A text is a sequence of           *)
(* one-character strings.  A pattern is a sequence of alternatives tried in *)
(* order, each a sequence of items: a class of characters repeated between  *)
(* min and max times, as many as possible first, or a word boundary.        *)
(* re.sub scans from the left, replaces each match and goes on after it.    *)
(***************************************************************************)

Digit ==
    {"0", "1", "2", "3", "4", "5", "6", "7", "8", "9"}

Lower ==
    {"a", "b", "c", "d", "e", "f", "g", "h", "i", "j", "k", "l", "m", "n",
      "o", "p", "q", "r", "s", "t", "u", "v", "w", "x", "y", "z"}

Upper ==
    {"A", "B", "C", "D", "E", "F", "G", "H", "I", "J", "K", "L", "M", "N",
      "O", "P", "Q", "R", "S", "T", "U", "V", "W", "X", "Y", "Z"}

HexDigit ==
    Digit \cup {"a", "b", "c", "d", "e", "f"}

Alnum == Lower \cup Upper \cup Digit

Whitespace == {" "}                       \* \s

Quote == {"\"", "'"}

WordChar == Alnum \cup {"_"}               \* \w

Punctuation ==
    {"/", "\\", ":", ".", "=", "[", "]", "_", "-", "@", "+", "%", "|", ",",
     "{", "}"}

Alphabet == Alnum \cup Whitespace \cup Quote \cup Punctuation

Unbounded == 1000    \* "+" and "{n,}": no upper limit on the repetitions

Class(set, min, max) == [boundary |-> FALSE, set |-> set, min |-> min, max |-> max]
WordBoundary == [boundary |-> TRUE, set |-> {}, min |-> 0, max |-> 0]   \* \b
Lit(chars) == [i \in DOMAIN chars |-> Class({chars[i]}, 1, 1)]

NoMatch == 0

IsWordAt(text, pos) == pos \in DOMAIN text /\ text[pos] \in WordChar
AtWordBoundary(text, pos) == IsWordAt(text, pos - 1) # IsWordAt(text, pos)

RECURSIVE RunLength(_, _, _)
\* how many characters of the class stand at pos and after it
RunLength(set, text, pos) ==
    IF pos \in DOMAIN text /\ text[pos] \in set
    THEN 1 + RunLength(set, text, pos + 1)
    ELSE 0

RECURSIVE MatchEnd(_, _, _, _)
\* where the match of items k.. that starts at pos ends (the position after
\* its last character), or NoMatch; a repetition gives back one character
\* at a time until what follows it matches
MatchEnd(items, k, text, pos) ==
    IF k > Len(items) THEN pos
    ELSE IF items[k].boundary
    THEN IF AtWordBoundary(text, pos) THEN MatchEnd(items, k + 1, text, pos)
         ELSE NoMatch
    ELSE IF items[k].min = 1 /\ items[k].max = 1        \* one character
    THEN IF pos \in DOMAIN text /\ text[pos] \in items[k].set
         THEN MatchEnd(items, k + 1, text, pos + 1)
         ELSE NoMatch
    ELSE LET run == RunLength(items[k].set, text, pos)
             most == IF run < items[k].max THEN run ELSE items[k].max
             good == {n \in items[k].min..most :
                         MatchEnd(items, k + 1, text, pos + n) # NoMatch}
         IN  IF good = {} THEN NoMatch
             ELSE MatchEnd(items, k + 1, text,
                           pos + CHOOSE n \in good : \A m \in good : m <= n)

RECURSIVE MatchAt(_, _, _, _)
\* the first alternative from the a-th on that matches at pos
MatchAt(alternatives, a, text, pos) ==
    IF a > Len(alternatives) THEN NoMatch
    ELSE IF MatchEnd(alternatives[a], 1, text, pos) # NoMatch
    THEN MatchEnd(alternatives[a], 1, text, pos)
    ELSE MatchAt(alternatives, a + 1, text, pos)

RECURSIVE Sub(_, _, _)
\* pattern.sub(replacement, text), from pos on
Sub(pattern, text, pos) ==
    IF pos > Len(text) THEN <<>>
    ELSE LET end == MatchAt(pattern.alternatives, 1, text, pos)
         IN  IF end # NoMatch
             THEN pattern.replacement \o Sub(pattern, text, end)
             ELSE <<text[pos]>> \o Sub(pattern, text, pos + 1)

Octet == <<Class(Digit, 1, 3)>>
Dot == Lit(<<".">>)

Spaces == Class(Whitespace, 0, Unbounded)     \* \s*

\* ["']?\s*[:=]\s*["']?[A-Za-z0-9/+=_-]{8,}
Assignment ==
    <<Class(Quote, 0, 1), Spaces, Class({":", "="}, 1, 1), Spaces,
      Class(Quote, 0, 1),
      Class(Alnum \cup {"/", "+", "=", "_", "-"}, 8, Unbounded)>>

Hex(n) == <<Class(HexDigit, n, n)>>
Dash == Lit(<<"-">>)

\* the patterns in the order they are applied, each with its placeholder
PII_PATTERNS ==
    <<
      \* r"/home/[^/\s]+"
      [alternatives |->
          <<Lit(<<"/", "h", "o", "m", "e", "/">>)
              \o <<Class(Alphabet \ ({"/"} \cup Whitespace), 1, Unbounded)>>>>,
       replacement |-> <<"[", "H", "O", "M", "E", "]">>],
      \* r"/Users/[^/\s]+"
      [alternatives |->
          <<Lit(<<"/", "U", "s", "e", "r", "s", "/">>)
              \o <<Class(Alphabet \ ({"/"} \cup Whitespace), 1, Unbounded)>>>>,
       replacement |-> <<"[", "H", "O", "M", "E", "]">>],
      \* r"C:\\Users\\[^\\s]+": the class leaves out the backslash and the letter s
      [alternatives |->
          <<Lit(<<"C", ":", "\\", "U", "s", "e", "r", "s", "\\">>)
              \o <<Class(Alphabet \ {"\\", "s"}, 1, Unbounded)>>>>,
       replacement |-> <<"[", "H", "O", "M", "E", "]">>],
      \* r"/tmp/[a-zA-Z0-9_-]+"
      [alternatives |->
          <<Lit(<<"/", "t", "m", "p", "/">>)
              \o <<Class(Alnum \cup {"_", "-"}, 1, Unbounded)>>>>,
       replacement |-> <<"[", "T", "M", "P", "]">>],
      \* r"\b(?:[0-9]{1,3}\.){3}[0-9]{1,3}\b"
      [alternatives |->
          <<<<WordBoundary>> \o Octet \o Dot \o Octet \o Dot \o Octet \o Dot
              \o Octet \o <<WordBoundary>>>>,
       replacement |-> <<"[", "I", "P", "]">>],
      \* r"\b[A-Za-z0-9._%+-]+@[A-Za-z0-9.-]+\.[A-Z|a-z]{2,}\b"
      [alternatives |->
          <<<<WordBoundary,
              Class(Alnum \cup {".", "_", "%", "+", "-"}, 1, Unbounded)>>
              \o Lit(<<"@">>)
              \o <<Class(Alnum \cup {".", "-"}, 1, Unbounded)>> \o Dot
              \o <<Class(Upper \cup Lower \cup {"|"}, 2, Unbounded),
                   WordBoundary>>>>,
       replacement |-> <<"[", "E", "M", "A", "I", "L", "]">>],
      \* r"AKIA[0-9A-Z]{16}"
      [alternatives |->
          <<Lit(<<"A", "K", "I", "A">>) \o <<Class(Digit \cup Upper, 16, 16)>>>>,
       replacement |-> <<"[", "A", "W", "S", "_", "K", "E", "Y", "]">>],
      \* r"aws_secret_access_key\s*=\s*[A-Za-z0-9/+=]{40}"
      [alternatives |->
          <<Lit(<<"a", "w", "s", "_", "s", "e", "c", "r", "e", "t", "_",
                    "a", "c", "c", "e", "s", "s", "_", "k", "e", "y">>)
              \o <<Spaces>> \o Lit(<<"=">>) \o <<Spaces>>
              \o <<Class(Alnum \cup {"/", "+", "="}, 40, 40)>>>>,
       replacement |-> <<"[", "A", "W", "S", "_", "S", "E", "C", "R", "E", "T", "]">>],
      \* r"(token|password|key|secret)[\"']?\s*[:=]\s*[\"']?[A-Za-z0-9/+=_-]{8,}"
      [alternatives |->
          <<Lit(<<"t", "o", "k", "e", "n">>) \o Assignment,
            Lit(<<"p", "a", "s", "s", "w", "o", "r", "d">>)
              \o Assignment,
            Lit(<<"k", "e", "y">>) \o Assignment,
            Lit(<<"s", "e", "c", "r", "e", "t">>) \o Assignment>>,
       replacement |-> <<"[", "T", "O", "K", "E", "N", "]">>],
      \* r"\b[a-zA-Z0-9-]+\.local\b"
      [alternatives |->
          <<<<WordBoundary, Class(Alnum \cup {"-"}, 1, Unbounded)>>
              \o Lit(<<".", "l", "o", "c", "a", "l">>) \o <<WordBoundary>>>>,
       replacement |-> <<"[", "H", "O", "S", "T", "N", "A", "M", "E", "]">>],
      \* r"\b[0-9a-f]{8}-[0-9a-f]{4}-[0-9a-f]{4}-[0-9a-f]{4}-[0-9a-f]{12}\b"
      [alternatives |->
          <<<<WordBoundary>> \o Hex(8) \o Dash \o Hex(4) \o Dash \o Hex(4)
              \o Dash \o Hex(4) \o Dash \o Hex(12) \o <<WordBoundary>>>>,
       replacement |-> <<"[", "S", "E", "S", "S", "I", "O", "N", "_", "I", "D", "]">>]>>

RECURSIVE SanitizedFrom(_, _)
\* the patterns from the i-th on, each applied to what the one before left
SanitizedFrom(text, i) ==
    IF i > Len(PII_PATTERNS) \/ Len(text) = 0 THEN text
    ELSE SanitizedFrom(Sub(PII_PATTERNS[i], text, 1), i + 1)

sanitize_text(text) == SanitizedFrom(text, 1)

\* whether part occurs in text
Contains(text, part) ==
    \E i \in 1..(Len(text) - Len(part) + 1) :
        SubSeq(text, i, i + Len(part) - 1) = part

(***************************************************************************)
(* cli.py:155-222 (the --pull option) and cli.py:337-401 (the pull          *)
(* subcommand).  The catalogue, the confirmation, the authentication and   *)
(* the download are collaborators: what they return is the invocation's    *)
(* input, and they do not touch the state file.                            *)
(***************************************************************************)
Entries == {"--pull", "pull"}
NoPath == ""                    \* --path not given
\* dataset_manager.get_dataset: None, or a record of the catalogue
NoDatasetRecord ==
    [id |-> NoDataset, auth_required |-> FALSE, download_method |-> "none"]
DatasetRecords ==
    {[id |-> "ds1", auth_required |-> a, download_method |-> m] :
        a \in BOOLEAN, m \in {"aws", "ida_loni"}}

\* `if not dry_run and not get_confirmation(...)` (cli.py:169) and
\* `if not force and not dry_run:` (cli.py:350)
NeedsConfirmation(entry, dry_run, force) ==
    IF entry = "--pull" THEN ~dry_run ELSE ~force /\ ~dry_run

\* how far the invocation gets: "downloaded" when run_ida_workflow or
\* download_manager.download_dataset was called
PullStage(entry, target_path, dataset, dry_run, force, confirmed, authenticated) ==
    IF entry = "--pull" /\ target_path = NoPath THEN "no path"
    ELSE IF dataset = NoDatasetRecord THEN "not found"
    ELSE IF NeedsConfirmation(entry, dry_run, force) /\ ~confirmed
    THEN "cancelled"
    ELSE IF dataset.download_method = "ida_loni" THEN "downloaded"
    ELSE IF dataset.auth_required /\ ~authenticated
    THEN "authentication failed"
    ELSE "downloaded"

\* the consent prompt leaving nothing on disk when it is interrupted
PromptConsentInterruptUnsaved(fs, answer) ==
    IF was_telemetry_consent_asked(fs) THEN fs
    ELSE IF answer \in {"interrupt", "eof"} THEN fs
    ELSE set_telemetry_consent(fs, answer = "yes", FALSE, "none")

\* cli.py:32-74: nothing when the question was asked before; an interrupt or
\* the end of input at the prompt is recorded as a refusal
_prompt_telemetry_consent(fs, answer) ==
    IF was_telemetry_consent_asked(fs) THEN fs
    ELSE set_telemetry_consent(fs, answer = "yes", FALSE, "none")

\* how the consent prompt of an invocation went: the answer, or NotShown
NotShown == "not shown"
ConsentPrompt(fs, answer) ==
    IF get_successful_runs(fs) = 0 /\ ~was_telemetry_consent_asked(fs)
    THEN answer ELSE NotShown

\* an invocation that ended before the download step, or a dry run
NothingRecorded(fs, timestamps, exit) ==
    [fs |-> fs, timestamps |-> timestamps, posts |-> <<>>, raised |-> FALSE,
     flow |-> NoFlow, events |-> <<>>, consent |-> NotShown, exit |-> exit]

\* the invocation recording the download whether or not it was a dry run
AfterDownloadRecordsDryRun(fs, timestamps, utcnow, dataset_id, dry_run, success, answer, outcome, log_file_path, choice) ==
    LET rec == record_download_event(fs, timestamps, utcnow, dataset_id,
                                     success, outcome, FALSE, FALSE, "none")
    IN  [fs |-> rec.fs, timestamps |-> rec.timestamps, posts |-> rec.posts,
         raised |-> rec.raised, flow |-> NoFlow, events |-> <<success>>,
         consent |-> NotShown, exit |-> IF success THEN 0 ELSE 1]

\* `if success:` ... `else:` ... sys.exit(1), after the download step
\* returned.  events: the succeeded argument of each record_download_event
\* call made.
AfterDownload(fs, timestamps, utcnow, dataset_id, dry_run, success, answer, outcome, log_file_path, choice) ==
    IF dry_run THEN NothingRecorded(fs, timestamps, IF success THEN 0 ELSE 1)
    ELSE IF success
    THEN LET is_first_success == get_successful_runs(fs) = 0
             fs1 == IF is_first_success
                    THEN _prompt_telemetry_consent(fs, answer) ELSE fs
             rec == record_download_event(fs1, timestamps, utcnow,
                                          dataset_id, TRUE, outcome,
                                          FALSE, FALSE, "none")
             fb == maybe_prompt_feedback(rec.fs, utcnow, FALSE,
                                         log_file_path, choice, "", "1",
                                         DefaultAnswers, outcome, "", "none")
         IN  IF rec.raised
             THEN [fs |-> rec.fs, timestamps |-> rec.timestamps,
                   posts |-> rec.posts, raised |-> TRUE, flow |-> NoFlow,
                   events |-> <<TRUE>>, consent |-> ConsentPrompt(fs, answer),
                   exit |-> 1]
             ELSE [fs |-> fb.fs, timestamps |-> rec.timestamps,
                   posts |-> rec.posts \o fb.posts, raised |-> fb.raised,
                   flow |-> fb.flow, events |-> <<TRUE>>,
                   consent |-> ConsentPrompt(fs, answer), exit |-> 0]
    ELSE LET rec == record_download_event(fs, timestamps, utcnow, dataset_id,
                                          FALSE, outcome, FALSE, FALSE,
                                          "none")
         IN  [fs |-> rec.fs, timestamps |-> rec.timestamps,
              posts |-> rec.posts, raised |-> rec.raised, flow |-> NoFlow,
              events |-> <<FALSE>>, consent |-> NotShown, exit |-> 1]

\* run_ida_workflow / download_manager.download_dataset: the download step
\* of the collaborator contract, "returning pass/fail given a target path
\* and dry-run flag"; it is outside the state manager and hands the state
\* file back as it found it
download_dataset(fs, dry_run, success) == [fs |-> fs, success |-> success]

\* one pull invocation, by either entry point
pull(fs, timestamps, utcnow, stage, dataset_id, dry_run, success, answer, outcome, log_file_path, choice) ==
    IF stage = "downloaded"
    THEN LET step == download_dataset(fs, dry_run, success)
         IN  AfterDownload(step.fs, timestamps, utcnow, dataset_id, dry_run,
                           step.success, answer, outcome, log_file_path,
                           choice)
    ELSE NothingRecorded(fs, timestamps, 0)

(***************************************************************************)
(* The state.                                                              *)
(***************************************************************************)
VARIABLES
    fs,            \* the directory of the state file and its inodes
    timestamps,    \* telemetry._event_timestamps
    now,           \* time.time(), in ticks
    posts,         \* the POSTs the last call made (what a mocked send sees)
    raised,        \* whether the last call raised to its caller
    ret,           \* what the last load_state / save_state call returned
    issued,        \* increments issued since the state was fresh, per dataset
    pc,            \* SpecConc: where each process is in its call
    job,           \* SpecConc: the call each process makes
    mem,           \* SpecConc: the record each process holds in memory
    fd,            \* SpecConc: the inode each process has open
    lock,          \* SpecConc: the process holding the flock of each inode
    passed,        \* SpecConc: the records passed to save_state so far
    attempts,      \* SpecBurst: when the latest telemetry POSTs were attempted
    flow,          \* how the last maybe_prompt_feedback call went
    session_id     \* telemetry._session_id

vars == <<fs, timestamps, now, posts, raised, ret, issued,
          pc, job, mem, fd, lock, passed, attempts, flow, session_id>>
procVars == <<pc, job, mem, fd, lock, passed>>

NoReturn == [op |-> "none", state |-> DEFAULT_STATE, ok |-> TRUE]
NoneIssued == [d \in DatasetArgs |-> ZeroStats]
ProcInit ==
    /\ pc = [p \in Procs |-> "idle"]
    /\ job = [p \in Procs |-> "none"]
    /\ mem = [p \in Procs |-> DEFAULT_STATE]
    /\ fd = [p \in Procs |-> NoFile]
    /\ lock = [i \in Inodes |-> 0]
    /\ passed = {}
    /\ attempts = <<>>
    /\ flow = NoFlow
    /\ session_id = NoSession

\* A fresh installation: no state file, nothing sent.
Init ==
    /\ fs = EmptyFs
    /\ timestamps = <<>>
    /\ now = 0
    /\ posts = <<>>
    /\ raised = FALSE
    /\ ret = NoReturn
    /\ issued = NoneIssued
    /\ ProcInit

TotalIssued ==
    LET Sum[S \in SUBSET DatasetArgs] ==
            IF S = {} THEN 0
            ELSE LET d == CHOOSE x \in S : TRUE
                 IN  issued[d].success + issued[d].fail + Sum[S \ {d}]
    IN  Sum[DatasetArgs]

\* The POST attempts of the window that ends now, one more made; no more
\* than MAX_EVENTS_PER_MINUTE + 1 of them are kept.
Attempted ==
    LET all == Append(Pruned(attempts, now), now)
    IN  IF Len(all) > MAX_EVENTS_PER_MINUTE + 1 THEN Tail(all) ELSE all

Counted(d, succeeded) ==
    [issued EXCEPT ![d] = IF succeeded THEN [@ EXCEPT !.success = @ + 1]
                          ELSE [@ EXCEPT !.fail = @ + 1]]

(***************************************************************************)
(* One call after the other by one process.  unreadable*, fault: what the  *)
(* disk does to the call's loads and to its save.                          *)
(***************************************************************************)
RecordDownloadEvent(d, succeeded, outcome, unreadable1, unreadable2, fault) ==
    /\ issued' = Counted(d, succeeded)
    /\ ret' = NoReturn
    /\ \E r \in {record_download_event(fs, timestamps, now, d, succeeded,
                                         outcome, unreadable1, unreadable2,
                                         fault)} :
           /\ fs' = r.fs
           /\ timestamps' = r.timestamps
           /\ posts' = r.posts
           /\ raised' = r.raised
           /\ \E uuid \in (IF r.posts # <<>> /\ session_id = NoSession
                          THEN Tokens ELSE {session_id}) :
                  session_id' = IF r.posts # <<>>  \* the payload was built
                                THEN _get_session_id(session_id, uuid)
                                ELSE session_id
    /\ flow' = NoFlow
    /\ UNCHANGED <<now, procVars>>

Increment(d, succeeded, unreadable, fault) ==
    /\ issued' = Counted(d, succeeded)
    /\ ret' = NoReturn
    /\ posts' = <<>>
    /\ \E r \in {IF succeeded
                  THEN increment_successful_run(fs, d, unreadable, fault)
                  ELSE increment_failed_run(fs, d, unreadable, fault)} :
           /\ fs' = r.fs
           /\ raised' = r.raised
    /\ UNCHANGED <<timestamps, now, procVars, attempts, flow, session_id>>

SetTelemetryConsent(consented) ==
    /\ fs' = set_telemetry_consent(fs, consented, FALSE, "none")
    /\ posts' = <<>>
    /\ raised' = FALSE
    /\ ret' = NoReturn
    /\ UNCHANGED <<timestamps, now, issued, procVars, attempts, flow, session_id>>

UpdateLastFeedbackRunCount(run_count) ==
    /\ fs' = update_last_feedback_run_count(fs, run_count, FALSE, "none")
    /\ posts' = <<>>
    /\ raised' = FALSE
    /\ ret' = NoReturn
    /\ UNCHANGED <<timestamps, now, issued, procVars, attempts, flow, session_id>>

SetFeedbackConsent(consented) ==
    /\ fs' = set_feedback_consent(fs, consented, FALSE, "none")
    /\ posts' = <<>>
    /\ raised' = FALSE
    /\ ret' = NoReturn
    /\ UNCHANGED <<timestamps, now, issued, procVars, attempts, flow, session_id>>

MarkPrivacyNoticeShown ==
    /\ fs' = mark_privacy_notice_shown(fs, now, FALSE, "none")
    /\ posts' = <<>>
    /\ raised' = FALSE
    /\ ret' = NoReturn
    /\ UNCHANGED <<timestamps, now, issued, procVars, attempts, flow, session_id>>

ResetState ==
    /\ fs' = reset_state(fs, "none")
    /\ posts' = <<>>
    /\ raised' = FALSE
    /\ issued' = NoneIssued
    /\ ret' = [NoReturn EXCEPT !.op = "reset_state"]
    /\ UNCHANGED <<timestamps, now, procVars, attempts, flow, session_id>>

\* Time passes between two calls.
Tick ==
    /\ now < MaxClock
    /\ now' = now + 1
    /\ UNCHANGED <<fs, timestamps, posts, raised, ret, issued, procVars, attempts, flow, session_id>>

(***************************************************************************)
(* SpecStore: the state store alone, on a fresh installation whose disk    *)
(* behaves: every mutator, in any order.                                   *)
(***************************************************************************)
StoreIncrement ==
    /\ TotalIssued < MaxRuns
    /\ \E d \in DatasetArgs, succeeded \in BOOLEAN :
           Increment(d, succeeded, FALSE, "none")

StoreMutate ==
    \/ \E consented \in BOOLEAN : SetTelemetryConsent(consented)
    \/ \E n \in 0..MaxRuns : UpdateLastFeedbackRunCount(n)
    \/ \E consented \in BOOLEAN : SetFeedbackConsent(consented)
    \/ MarkPrivacyNoticeShown

NextStore ==
    \/ StoreIncrement
    \/ StoreMutate
    \/ ResetState

SpecStore == Init /\ [][NextStore]_vars

(***************************************************************************)
(* Spec: the telemetry reporter on a fresh installation whose disk         *)
(* behaves: downloads recorded one after the other, the consent prompt     *)
(* answered at any point.                                                  *)
(***************************************************************************)
Record ==
    /\ TotalIssued < MaxRuns
    /\ \E d \in DatasetArgs, succeeded \in BOOLEAN, outcome \in NetOutcomes :
           RecordDownloadEvent(d, succeeded, outcome, FALSE, FALSE, "none")
    /\ UNCHANGED attempts

Consent == \E consented \in BOOLEAN : SetTelemetryConsent(consented)

Next ==
    \/ Record
    \/ Consent
    \/ ResetState

Spec == Init /\ [][Next]_vars

(***************************************************************************)
(* Properties of the reporter and of the store on a well-behaved disk.     *)
(***************************************************************************)
SumIssued(sub) ==
    LET Sum[S \in SUBSET DatasetArgs] ==
            IF S = {} THEN 0
            ELSE LET d == CHOOSE x \in S : TRUE
                 IN  issued[d][sub] + Sum[S \ {d}]
    IN  Sum[DatasetArgs]

\* The counters of fs2 are those of fs1 with one more run of dataset d
\* counted, successful or failed.
CountedOnce(fs1, fs2, d, succeeded) ==
    /\ get_successful_runs(fs2) =
           get_successful_runs(fs1) + (IF succeeded THEN 1 ELSE 0)
    /\ get_failed_runs(fs2) = get_failed_runs(fs1) + (IF succeeded THEN 0 ELSE 1)
    /\ \A e \in Datasets :
           get_dataset_stats(fs2, e) =
               [success |-> get_dataset_stats(fs1, e).success
                                + (IF e = d /\ succeeded THEN 1 ELSE 0),
                fail |-> get_dataset_stats(fs1, e).fail
                                + (IF e = d /\ ~succeeded THEN 1 ELSE 0)]

\* C1: a record_download_event call made while telemetry consent is not
\* granted makes no POST, and counts the run exactly once in the local
\* counters (the successful or the failed one, as the succeeded flag says).
C1_NoConsentNoSend ==
    [][\A d \in DatasetArgs, succeeded \in BOOLEAN :
          (/\ issued' = Counted(d, succeeded)
           /\ ~has_telemetry_consent(fs, FALSE)
           /\ \E outcome \in NetOutcomes :
                  RecordDownloadEvent(d, succeeded, outcome, FALSE, FALSE, "none"))
          => /\ posts' = <<>>
             /\ ~raised'
             /\ CountedOnce(fs, fs', d, succeeded)]_vars

\* Three events recorded for ds1 (two successful, one failed) while consent
\* was never asked, hence never granted.
C1_Witness ==
    /\ ~was_telemetry_consent_asked(fs)
    /\ issued["ds1"] = [success |-> 2, fail |-> 1]
    /\ get_dataset_stats(fs, "ds1") = [success |-> 2, fail |-> 1]
    /\ posts = <<>>

\* C3: after any sequence of increments on a fresh state the global counters
\* equal the numbers of successful and of failed increments issued, and each
\* dataset's stats the numbers issued for it: {0, 0} for a dataset never seen.
C3_CountersMatchIssued ==
    /\ get_successful_runs(fs) = SumIssued("success")
    /\ get_failed_runs(fs) = SumIssued("fail")
    /\ \A d \in Datasets : get_dataset_stats(fs, d) = issued[d]
    /\ get_dataset_stats(fs, "nonexistent_dataset") = ZeroStats

\* The sequence of spec.md section 8: ds1 twice successful, once failed, and
\* ds2 never seen.
C3_Witness ==
    /\ issued["ds1"] = [success |-> 2, fail |-> 1]
    /\ issued["ds2"] = ZeroStats
    /\ get_dataset_stats(fs, "ds1") = [success |-> 2, fail |-> 1]
    /\ get_successful_runs(fs) = 2

\* C6: no state-store operation other than reset_state lowers the persisted
\* successful_runs or failed_runs.
C6_CountersNeverDecrease ==
    [][(StoreIncrement \/ StoreMutate)
          => /\ get_successful_runs(fs') >= get_successful_runs(fs)
             /\ get_failed_runs(fs') >= get_failed_runs(fs)]_vars

\* Both counters above zero and every other mutator applied since.
C6_Witness ==
    /\ get_successful_runs(fs) = 2
    /\ get_failed_runs(fs) = 1
    /\ was_telemetry_consent_asked(fs)
    /\ get_last_feedback_run_count(fs) = 2
    /\ LoadState(fs, FALSE).feedback_consent_given
    /\ LoadState(fs, FALSE).last_privacy_notice_shown # None

\* the sum of one counter over every dataset entry of the state file
PerDatasetSum(sub) ==
    LET per_dataset == LoadState(fs, FALSE).per_dataset
        Sum[S \in SUBSET DOMAIN per_dataset] ==
            IF S = {} THEN 0
            ELSE LET d == CHOOSE x \in S : TRUE
                 IN  per_dataset[d][sub] + Sum[S \ {d}]
    IN  Sum[DOMAIN per_dataset]

\* C36: in every state file reachable from a fresh installation through
\* record_download_event calls that all name a dataset, successful_runs is the
\* sum of per_dataset[d].success over the datasets of the file and
\* failed_runs the sum of per_dataset[d].fail.
C36_CountersEqualPerDatasetSums ==
    issued[NoDataset] = ZeroStats
        => /\ get_successful_runs(fs) = PerDatasetSum("success")
           /\ get_failed_runs(fs) = PerDatasetSum("fail")

\* Two datasets in the file, successes and a failure among three events.
C36_Witness ==
    /\ issued[NoDataset] = ZeroStats
    /\ DOMAIN LoadState(fs, FALSE).per_dataset = {"ds1", "ds2"}
    /\ get_successful_runs(fs) = 2
    /\ get_failed_runs(fs) = 1
    /\ PerDatasetSum("success") = 2
    /\ PerDatasetSum("fail") = 1

\* An event without a dataset name counts in the global counter alone.
C36_WitnessUnnamed ==
    /\ issued[NoDataset].success = 1
    /\ get_successful_runs(fs) = PerDatasetSum("success") + 1

\* C22: after set_telemetry_consent(c), for c true and c false alike, a
\* manager opened on the same file reads has_telemetry_consent() = c and
\* was_telemetry_consent_asked() = true.
C22_ConsentReadBack ==
    [][\A c \in BOOLEAN :
          SetTelemetryConsent(c)
              => /\ has_telemetry_consent(fs', FALSE) = c
                 /\ was_telemetry_consent_asked(fs')]_vars

\* Consent was refused after a download had been counted: the file says
\* asked and not given.
C22_Witness ==
    /\ get_successful_runs(fs) = 1
    /\ ~has_telemetry_consent(fs, FALSE)
    /\ was_telemetry_consent_asked(fs)

\* C23 as stated: once telemetry_consent_given or telemetry_consent_asked is
\* true in the file, no operation other than reset_state makes it false.
C23_BothFlagsSticky ==
    [][(StoreIncrement \/ StoreMutate)
          => /\ has_telemetry_consent(fs, FALSE)
                 => has_telemetry_consent(fs', FALSE)
             /\ was_telemetry_consent_asked(fs)
                 => was_telemetry_consent_asked(fs')]_vars

\* C23: telemetry_consent_asked, once true in the file, is made false by no
\* operation other than reset_state; telemetry_consent_given, once true, is
\* made false only by reset_state or by set_telemetry_consent(false).
C23_AskedStickyGivenRevocable ==
    [][(StoreIncrement \/ StoreMutate)
          => /\ was_telemetry_consent_asked(fs)
                 => was_telemetry_consent_asked(fs')
             /\ has_telemetry_consent(fs, FALSE)
                    /\ ~has_telemetry_consent(fs', FALSE)
                 => SetTelemetryConsent(FALSE)]_vars

\* Consent asked and given, and every other mutator applied since.
C23_Witness ==
    /\ was_telemetry_consent_asked(fs)
    /\ has_telemetry_consent(fs, FALSE)
    /\ get_successful_runs(fs) = 1
    /\ get_failed_runs(fs) = 1
    /\ get_last_feedback_run_count(fs) = 1
    /\ LoadState(fs, FALSE).feedback_consent_given
    /\ LoadState(fs, FALSE).last_privacy_notice_shown # None

\* C24: after reset_state, whatever came before, the file holds exactly the
\* schema defaults: counters 0, no dataset entry, cursor 0, flags false.
C24_ResetWritesDefaults ==
    [][ResetState
          => /\ fs'.canon # NoFile
             /\ fs'.data[fs'.canon] = Dump(DEFAULT_STATE)
             /\ LoadState(fs', FALSE) = DEFAULT_STATE
             /\ \A d \in Datasets : get_dataset_stats(fs', d) = ZeroStats]_vars

\* reset_state has just run and left a file of defaults.
C24_Witness ==
    /\ ret.op = "reset_state"
    /\ fs.canon # NoFile
    /\ get_successful_runs(fs) = 0
    /\ ~was_telemetry_consent_asked(fs)

\* C34: in every state file reachable from a fresh installation through the
\* operations of the state store, telemetry_consent_given implies
\* telemetry_consent_asked.
C34_GivenImpliesAsked ==
    LoadState(fs, FALSE).telemetry_consent_given
        => LoadState(fs, FALSE).telemetry_consent_asked

\* Consent granted on a file that holds counts, a cursor and the feedback
\* flag.
C34_Witness ==
    /\ fs.canon # NoFile
    /\ LoadState(fs, FALSE).telemetry_consent_given
    /\ LoadState(fs, FALSE).telemetry_consent_asked
    /\ get_successful_runs(fs) = 2
    /\ get_last_feedback_run_count(fs) = 2
    /\ LoadState(fs, FALSE).feedback_consent_given

\* Consent refused: asked without given.
C34_WitnessRefused ==
    /\ fs.canon # NoFile
    /\ ~LoadState(fs, FALSE).telemetry_consent_given
    /\ LoadState(fs, FALSE).telemetry_consent_asked

(***************************************************************************)
(* SpecEnv: one process on a disk that misbehaves.  The installation       *)
(* starts with whatever state.json the user, another version or a crash    *)
(* left behind; loads may fail to read and saves may fail to write.        *)
(***************************************************************************)
MaxEnvRuns == 2       \* download events recorded in one behaviour of SpecEnv

\* test_state.py:216: a file holding only {"successful_runs": 10}
PartialRuns == 10
PartialText ==
    <<OpenBrace, [key |-> "successful_runs", val |-> PartialRuns], CloseBrace>>

\* a file cut off in the middle of a dump
TruncatedText == SubSeq(Dump(DEFAULT_STATE), 1, 4)

\* valid JSON whose successful_runs is a string
WrongTypeText ==
    <<OpenBrace, [key |-> "successful_runs", val |-> NonNumeric], CloseBrace>>

\* a file of an installation that consented to telemetry
ConsentedText ==
    Dump([DEFAULT_STATE EXCEPT !.telemetry_consent_given = TRUE,
                               !.telemetry_consent_asked = TRUE])

\* a partial file with a key the schema does not know
ForeignText ==
    <<OpenBrace, [key |-> "failed_runs", val |-> 1],
      [key |-> UnknownKey, val |-> 1], CloseBrace>>

FileTexts ==
    {<<>>, <<GarbageText>>, TruncatedText, <<ScalarText>>, PartialText,
     WrongTypeText, ConsentedText, ForeignText}

\* test_state.py:60-61, with every other kind of value the record can hold
RichState ==
    [DEFAULT_STATE EXCEPT !.successful_runs = 5, !.failed_runs = 2,
                          !.per_dataset = ("ds1" :> [success |-> 5, fail |-> 2]),
                          !.last_feedback_run_count = 3,
                          !.telemetry_consent_asked = TRUE,
                          !.last_privacy_notice_shown = 0]
    @@ (UnknownKey :> 1)

SaveArgs == {DEFAULT_STATE, RichState, ret.state}

InitEnv ==
    /\ fs \in {EmptyFs} \cup {FsWith(text) : text \in FileTexts}
    /\ timestamps = <<>>
    /\ now = 0
    /\ posts = <<>>
    /\ raised = FALSE
    /\ ret = NoReturn
    /\ issued = NoneIssued
    /\ ProcInit

LoadCall(unreadable) ==
    /\ \E r \in {Load(fs, unreadable)} :
           /\ ret' = [op |-> "load_state", state |-> r.state, ok |-> TRUE]
           /\ raised' = r.raised
    /\ fs' = FsAfterLoad(fs)
    /\ posts' = <<>>
    /\ UNCHANGED <<timestamps, now, issued, procVars, attempts, flow, session_id>>

SaveCall(state, fault) ==
    /\ \E r \in {SaveState(fs, state, fault)} :
           /\ fs' = r.fs
           /\ ret' = [op |-> "save_state", state |-> state, ok |-> r.ok]
    /\ raised' = FALSE
    /\ posts' = <<>>
    /\ UNCHANGED <<timestamps, now, issued, procVars, attempts, flow, session_id>>

EnvLoad == \E unreadable \in BOOLEAN : LoadCall(unreadable)

EnvSave == \E state \in SaveArgs, fault \in SaveFaults : SaveCall(state, fault)

EnvRecord ==
    /\ TotalIssued < MaxEnvRuns
    /\ \E d \in {"ds1", NoDataset}, succeeded \in BOOLEAN,
          outcome \in {"200", "timeout"},
          unreadable1 \in BOOLEAN, unreadable2 \in BOOLEAN, fault \in SaveFaults :
           RecordDownloadEvent(d, succeeded, outcome, unreadable1, unreadable2,
                               fault)
    /\ UNCHANGED attempts

NextEnv ==
    \/ EnvLoad
    \/ EnvSave
    \/ EnvRecord

SpecEnv == InitEnv /\ [][NextEnv]_vars

(***************************************************************************)
(* Properties on a misbehaving disk.                                       *)
(***************************************************************************)
\* C2: record_download_event never raises to its caller, whatever the state
\* file holds and whatever the disk and the network do.  In SpecEnv only a
\* record_download_event call sets `raised`.
C2_RecordNeverRaises == ~raised

NoValidJson(f) == f.canon = NoFile \/ Parse(f.data[f.canon]).kind = "error"

\* C7: load on a state file that is absent, empty or no valid JSON returns
\* exactly the schema defaults, does not raise, and leaves the directory and
\* the file as they were.
C7_LoadFallsBackToDefaults ==
    [][\A unreadable \in BOOLEAN :
          (ret'.op = "load_state" /\ NoValidJson(fs) /\ LoadCall(unreadable))
          => /\ ret'.state = DEFAULT_STATE
             /\ ~raised'
             /\ fs' = fs]_vars

\* A load has returned the defaults and the corrupted file is still there.
C7_Witness ==
    /\ ret.op = "load_state"
    /\ ret.state = DEFAULT_STATE
    /\ ~raised
    /\ fs = FsWith(<<GarbageText>>)

\* C8: load on a file holding a JSON object returns a record with every
\* schema key: a key of the file has the file's value, a missing key its
\* default.  The file holding only successful_runs = 10 loads with
\* successful_runs = 10 and telemetry_consent_given = FALSE.
C8_LoadMergesDefaults ==
    [][(ret'.op = "load_state" /\ fs.canon # NoFile
           /\ Parse(fs.data[fs.canon]).kind = "object" /\ LoadCall(FALSE))
          => LET file == Parse(fs.data[fs.canon]).obj
             IN  /\ DOMAIN ret'.state = DOMAIN DEFAULT_STATE \cup DOMAIN file
                 /\ \A k \in DOMAIN file : ret'.state[k] = file[k]
                 /\ \A k \in DOMAIN DEFAULT_STATE \ DOMAIN file :
                        ret'.state[k] = DEFAULT_STATE[k]
                 /\ fs.data[fs.canon] = PartialText
                        => /\ ret'.state.successful_runs = 10
                           /\ ret'.state.telemetry_consent_given = FALSE]_vars

C8_Witness ==
    /\ ret.op = "load_state"
    /\ fs = FsWith(PartialText)
    /\ ret.state = [DEFAULT_STATE EXCEPT !.successful_runs = 10]

\* C9: a load right after a successful save(s) returns s, for every record s
\* holding the schema's keys; and saving what a load just returned leaves
\* the stored state as it was.
C9_SaveLoadRoundTrip ==
    [][/\ (ret.op = "save_state" /\ ret.ok /\ ret'.op = "load_state"
              /\ LoadCall(FALSE))
              => ret'.state = ret.state
       /\ (ret.op = "load_state" /\ ret'.op = "save_state"
              /\ ret.state = LoadState(fs, FALSE) /\ SaveCall(ret.state, "none"))
              => /\ ret'.ok
                 /\ LoadState(fs', FALSE) = LoadState(fs, FALSE)]_vars

\* A load has returned the record, unknown key included, that only a save
\* can have put on disk.
C9_Witness ==
    /\ ret.op = "load_state"
    /\ ret.state = RichState
    /\ fs = FsWith(Dump(RichState))

\* what state.json holds: its text, or <<"absent">> when there is no file
CanonText(f) == IF f.canon = NoFile THEN <<"absent">> ELSE f.data[f.canon]

MaxFrameRuns == 1     \* increments in one behaviour of SpecFrame

InitFrame ==
    /\ fs \in {EmptyFs, FsWith(Dump(RichState)), FsWith(ForeignText),
               FsWith(WrongTypeText)}
    /\ timestamps = <<>>
    /\ now = 0
    /\ posts = <<>>
    /\ raised = FALSE
    /\ ret = NoReturn
    /\ issued = NoneIssued
    /\ ProcInit

FrameIncrement ==
    /\ TotalIssued < MaxFrameRuns
    /\ \E d \in DatasetArgs, succeeded \in BOOLEAN :
           Increment(d, succeeded, FALSE, "none")

NextFrame ==
    \/ FrameIncrement
    \/ StoreMutate

SpecFrame == InitFrame /\ [][NextFrame]_vars

\* the keys whose value, as load_state returns it, differs between two files
Changed(f1, f2) ==
    LET s1 == LoadState(f1, FALSE)
        s2 == LoadState(f2, FALSE)
    IN  {k \in DOMAIN s1 \cup DOMAIN s2 :
            \/ k \notin DOMAIN s1
            \/ k \notin DOMAIN s2
            \/ s1[k] # s2[k]}

\* the counters of the datasets that differ between two files
ChangedStats(f1, f2) ==
    {<<d, sub>> \in Datasets \X {"success", "fail"} :
        get_dataset_stats(f1, d)[sub] # get_dataset_stats(f2, d)[sub]}

\* C37: each mutator changes only its own fields of the record the file
\* holds: an increment its global counter and the matching counter of the
\* named dataset, set_telemetry_consent the two telemetry flags,
\* update_last_feedback_run_count the cursor, set_feedback_consent its flag,
\* mark_privacy_notice_shown the timestamp; every other key, a key the schema
\* does not know included, reads back as before.
C37_MutatorsChangeOwnFieldsOnly ==
    [][/\ \A d \in DatasetArgs, succeeded \in BOOLEAN :
             Increment(d, succeeded, FALSE, "none")
                 => /\ Changed(fs, fs')
                        \subseteq {IF succeeded THEN "successful_runs"
                                   ELSE "failed_runs", "per_dataset"}
                    /\ ChangedStats(fs, fs')
                        \subseteq {<<d, IF succeeded THEN "success"
                                        ELSE "fail">>}
       /\ \A c \in BOOLEAN :
             SetTelemetryConsent(c)
                 => Changed(fs, fs') \subseteq {"telemetry_consent_given",
                                                "telemetry_consent_asked"}
       /\ \A n \in 0..MaxRuns :
             UpdateLastFeedbackRunCount(n)
                 => Changed(fs, fs') \subseteq {"last_feedback_run_count"}
       /\ \A c \in BOOLEAN :
             SetFeedbackConsent(c)
                 => Changed(fs, fs') \subseteq {"feedback_consent_given"}
       /\ MarkPrivacyNoticeShown
             => Changed(fs, fs') \subseteq {"last_privacy_notice_shown"}]_vars

\* Every mutator has run on the partial file of another version: its unknown
\* key and its failed_runs are still there.
C37_Witness ==
    /\ UnknownKey \in DOMAIN LoadState(fs, FALSE)
    /\ LoadState(fs, FALSE)[UnknownKey] = 1
    /\ get_failed_runs(fs) = 1
    /\ get_successful_runs(fs) = 1
    /\ get_dataset_stats(fs, "ds2") = [success |-> 1, fail |-> 0]
    /\ has_telemetry_consent(fs, FALSE)
    /\ get_last_feedback_run_count(fs) = 2
    /\ LoadState(fs, FALSE).feedback_consent_given
    /\ LoadState(fs, FALSE).last_privacy_notice_shown # None

(***************************************************************************)
(* SpecRate: the reporter against its rate limiter.  One dataset is        *)
(* downloaded again and again while the clock runs; the consent prompt of  *)
(* the CLI (cli.py:32-74) is answered once.                                *)
(***************************************************************************)
MaxRateRuns == 11     \* download events recorded in one behaviour of SpecRate
MaxRateFailed == 1    \* of which failed downloads

\* _prompt_telemetry_consent: returns at once when the question was asked
\* before; an interrupt at the prompt is recorded as a refusal.
PromptTelemetryConsent(answer) ==
    /\ ~was_telemetry_consent_asked(fs)
    /\ SetTelemetryConsent(answer = "yes")

RateCall ==
    /\ TotalIssued < MaxRateRuns
    /\ \E succeeded \in BOOLEAN, outcome \in NetOutcomes :
           /\ ~succeeded => issued["ds1"].fail < MaxRateFailed
           /\ RecordDownloadEvent("ds1", succeeded, outcome, FALSE, FALSE, "none")

RateRecord ==
    /\ RateCall
    /\ UNCHANGED attempts

RatePrompt == \E answer \in {"yes", "no", "interrupt"} : PromptTelemetryConsent(answer)

NextRate ==
    \/ RateRecord
    \/ RatePrompt
    \/ Tick

SpecRate == Init /\ [][NextRate]_vars

\* C10: a record_download_event call made with consent granted while the
\* rate limiter reports the limit exceeded makes no POST, and still counts
\* the run in the local counters.
C10_RateLimitedNoSend ==
    [][\A d \in DatasetArgs, succeeded \in BOOLEAN :
          (/\ issued' = Counted(d, succeeded)
           /\ has_telemetry_consent(fs, FALSE)
           /\ _is_rate_limited(timestamps, now)
           /\ \E outcome \in NetOutcomes :
                  RecordDownloadEvent(d, succeeded, outcome, FALSE, FALSE, "none"))
          => /\ posts' = <<>>
             /\ ~raised'
             /\ CountedOnce(fs, fs', d, succeeded)]_vars

\* Consent is granted, ten sends are inside the window, and the eleventh
\* event was counted without a POST.
C10_Witness ==
    /\ has_telemetry_consent(fs, FALSE)
    /\ Len(Pruned(timestamps, now)) = MAX_EVENTS_PER_MINUTE
    /\ TotalIssued = MAX_EVENTS_PER_MINUTE + 1
    /\ get_successful_runs(fs) + get_failed_runs(fs) = MAX_EVENTS_PER_MINUTE + 1
    /\ posts = <<>>

(***************************************************************************)
(* SpecBurst: the reporter of an installation that has consented, in a     *)
(* burst of downloads that falls inside one window, with the POSTs it      *)
(* attempts kept on record.                                                *)
(***************************************************************************)
InitBurst ==
    /\ fs = FsWith(ConsentedText)
    /\ timestamps = <<>>
    /\ now = 0
    /\ posts = <<>>
    /\ raised = FALSE
    /\ ret = NoReturn
    /\ issued = NoneIssued
    /\ ProcInit

\* one event more than the rate limiter lets through in a window
BurstRuns == MAX_EVENTS_PER_MINUTE + 1

BurstRecord ==
    /\ TotalIssued < BurstRuns
    /\ RateCall
    /\ attempts' = IF posts' = <<>> THEN attempts ELSE Attempted

NextBurst == BurstRecord

SpecBurst == InitBurst /\ [][NextBurst]_vars

\* The timestamps that lie inside the window ending now.
Recent == {i \in DOMAIN timestamps :
              (now - timestamps[i]) * TickSeconds < RATE_LIMIT_WINDOW}

\* C11: once MAX_EVENTS_PER_MINUTE events are recorded inside the window the
\* next attempt is rate-limited and nothing is sent; once the window has
\* elapsed since every recorded event the next attempt is not rate-limited,
\* it is sent, and the check has pruned the stale timestamps.
C11_RateLimitWindow ==
    [][(issued' # issued /\ has_telemetry_consent(fs, FALSE))
          => /\ Cardinality(Recent) >= MAX_EVENTS_PER_MINUTE
                 => /\ _is_rate_limited(timestamps, now)
                    /\ posts' = <<>>
             /\ (timestamps # <<>> /\ Recent = {})
                 => /\ ~_is_rate_limited(timestamps, now)
                    /\ posts' # <<>>
             /\ \A i \in DOMAIN timestamps' :
                    (now - timestamps'[i]) * TickSeconds < RATE_LIMIT_WINDOW]_vars

\* Eleven events were recorded, the window has elapsed since the earlier
\* sends, and the last event was sent: its timestamp is the only one left.
C11_Witness ==
    /\ has_telemetry_consent(fs, FALSE)
    /\ TotalIssued = MAX_EVENTS_PER_MINUTE + 1
    /\ now = MaxClock
    /\ timestamps = <<now>>
    /\ posts # <<>>

\* C12: every send the rate limiter accepts is counted against the limit,
\* whatever the POST's outcome, so that no more than MAX_EVENTS_PER_MINUTE
\* POSTs are attempted inside any RATE_LIMIT_WINDOW seconds.
C12_AtMostCapPostsPerWindow ==
    Len(Pruned(attempts, now)) <= MAX_EVENTS_PER_MINUTE

\* C13: a record_download_event call made with consent granted and the rate
\* limiter not exceeded attempts exactly one POST, with the payload of that
\* event; no call ever POSTs anything but its own event, once: a send that
\* failed is not repeated, in the call or in a later one.
C13_OnePostNoRetry ==
    [][\A d \in DatasetArgs, succeeded \in BOOLEAN :
          (/\ issued' = Counted(d, succeeded)
           /\ \E outcome \in NetOutcomes :
                  RecordDownloadEvent(d, succeeded, outcome, FALSE, FALSE, "none"))
          => /\ posts' \in {<<>>, <<_build_download_event_payload(d, succeeded)>>}
             /\ (has_telemetry_consent(fs, FALSE)
                    /\ Cardinality(Recent) < MAX_EVENTS_PER_MINUTE)
                 => posts' = <<_build_download_event_payload(d, succeeded)>>]_vars

\* A failed and a successful download were reported and neither POST
\* succeeded; the second call made the one POST of its own event.
C13_Witness ==
    /\ has_telemetry_consent(fs, FALSE)
    /\ issued["ds1"] = [success |-> 1, fail |-> 1]
    /\ Len(attempts) = 2
    /\ timestamps = <<>>
    /\ posts = <<_build_download_event_payload("ds1", TRUE)>>

(***************************************************************************)
(* SpecGate: the scheduling gate applied to run counts and cursors.        *)
(***************************************************************************)
MaxGateRuns == 150

\* The call about to be made: a run count, a cursor and the force flag.
InitGate ==
    /\ fs = EmptyFs
    /\ timestamps = <<>>
    /\ now = 0
    /\ posts = <<>>
    /\ raised = FALSE
    /\ \E current_runs \in 0..MaxGateRuns, last_feedback_run \in 0..MaxGateRuns,
          force \in BOOLEAN :
           ret = [op |-> "call", state |-> DEFAULT_STATE, ok |-> FALSE,
                  args |-> <<current_runs, last_feedback_run, force>>]
    /\ issued = NoneIssued
    /\ ProcInit

ShouldPromptFeedback ==
    /\ ret.op = "call"
    /\ ret' = [ret EXCEPT !.op = "_should_prompt_feedback",
                          !.ok = _should_prompt_feedback(ret.args[1], ret.args[2],
                                                         ret.args[3])]
    /\ UNCHANGED <<fs, timestamps, now, posts, raised, issued, procVars,
                   attempts, flow, session_id>>

NextGate == ShouldPromptFeedback

SpecGate == InitGate /\ [][NextGate]_vars

GateCalled == ret.op = "_should_prompt_feedback"

\* C16: for current_runs <= 50 and force false the gate is true exactly when
\* current_runs is one of 1, 3, 10, 30, 50 and differs from
\* last_feedback_run.
C16_EarlySchedule ==
    (GateCalled /\ ~ret.args[3] /\ ret.args[1] <= 50)
        => (ret.ok <=> /\ ret.args[1] \in {1, 3, 10, 30, 50}
                       /\ ret.args[1] # ret.args[2])

C16_Witness ==
    /\ GateCalled
    /\ ret.args = <<10, 0, FALSE>>
    /\ ret.ok

\* C17: for n > 50 and force false the gate is true exactly when n is a
\* multiple of 50 and differs from last_feedback_run.
C17_EveryFiftyAfterFifty ==
    (GateCalled /\ ~ret.args[3] /\ ret.args[1] > 50)
        => (ret.ok <=> /\ ret.args[1] % 50 = 0
                       /\ ret.args[1] # ret.args[2])

C17_Witness ==
    /\ GateCalled
    /\ ret.args = <<100, 50, FALSE>>
    /\ ret.ok

\* C18: with force true the gate is true for every run count and cursor.
C18_ForceAlwaysPrompts ==
    (GateCalled /\ ret.args[3]) => ret.ok

C18_Witness ==
    /\ GateCalled
    /\ ret.args = <<2, 2, TRUE>>
    /\ ret.ok

(***************************************************************************)
(* SpecSend: the two senders on every payload and on everything            *)
(* requests.post can do.                                                   *)
(***************************************************************************)
PostOutcomes == NetOutcomes \cup {"201", "204", "301", "404", "503"}

Ratings == {"Bad", "Fine", "Good", "Excellent", "custom message"}
DetailLevels == {"quick", "detailed"}

SendTelemetryEvent ==
    /\ UNCHANGED <<fs, timestamps, now, issued, procVars, attempts, flow, session_id>>
    /\ \E d \in DatasetArgs, succeeded \in BOOLEAN, outcome \in PostOutcomes :
       \E payload \in {_build_download_event_payload(d, succeeded)},
          r \in {_send_telemetry_event(outcome)} :
           /\ posts' = <<payload>>
           /\ ret' = [op |-> "_send_telemetry_event", state |-> DEFAULT_STATE,
                      ok |-> r.ok, args |-> <<outcome>>]
           /\ raised' = r.raised

SendFeedbackEvent ==
    /\ UNCHANGED <<fs, timestamps, now, issued, procVars, attempts, flow, session_id>>
    /\ \E rating \in Ratings, detail_level \in DetailLevels,
          outcome \in PostOutcomes :
       \E payload \in {_build_feedback_payload(rating, detail_level,
                           IF detail_level = "detailed" THEN SomeDetails
                           ELSE NoDetails)},
          r \in {_send_feedback_event(outcome)} :
           /\ posts' = <<payload>>
           /\ ret' = [op |-> "_send_feedback_event", state |-> DEFAULT_STATE,
                      ok |-> r.ok, args |-> <<outcome>>]
           /\ raised' = r.raised

NextSend ==
    \/ SendTelemetryEvent
    \/ SendFeedbackEvent

SpecSend == Init /\ [][NextSend]_vars

SenderCalled == ret.op \in {"_send_telemetry_event", "_send_feedback_event"}

\* C14: each sender returns true exactly when the POST completed with status
\* 200; for every other status (429 included), a timeout, a connection error
\* or an unexpected exception it returns false, and it never raises.
C14_SuccessIsExactly200 ==
    SenderCalled => /\ ret.ok <=> ret.args[1] = "200"
                    /\ ~raised

\* The feedback sender has returned false on a 429.
C14_Witness ==
    /\ ret.op = "_send_feedback_event"
    /\ ret.args = <<"429">>
    /\ ~ret.ok
    /\ ~raised

(***************************************************************************)
(* SpecFeedback: one process recording downloads and calling               *)
(* maybe_prompt_feedback, forced (`neurodatahub feedback`, cli.py:132) or   *)
(* not (after a pull, cli.py:210), on a well-behaved disk.  The state file *)
(* starts absent or holding the counts of earlier runs.                    *)
(***************************************************************************)
MaxFeedbackRuns == 1      \* download events recorded in one behaviour
StartRuns == {0, 9, 49, 99}

RunsText(n) == Dump([DEFAULT_STATE EXCEPT !.successful_runs = n])

InitFeedback ==
    /\ fs \in {EmptyFs} \cup {FsWith(RunsText(n)) : n \in StartRuns \ {0}}
    /\ timestamps = <<>>
    /\ now = 0
    /\ posts = <<>>
    /\ raised = FALSE
    /\ ret = NoReturn
    /\ issued = NoneIssued
    /\ ProcInit

FeedbackRecord ==
    /\ TotalIssued < MaxFeedbackRuns
    /\ RecordDownloadEvent("ds1", TRUE, "200", FALSE, FALSE, "none")
    /\ attempts' = attempts

\* Whether a call with this force flag gets past the gate: the user answers
\* only the prompts that are put to them.
Prompting(force) ==
    _should_prompt_feedback(get_successful_runs(fs),
                            get_last_feedback_run_count(fs), force)

MaybePromptFeedback ==
    /\ UNCHANGED <<timestamps, now, issued, procVars, attempts, session_id>>
    /\ ret' = NoReturn
    /\ \E force \in BOOLEAN, log_file_path \in LogPaths :
       \E choice \in (IF Prompting(force) THEN RatingChoices ELSE {"6"}) :
       \E message \in (IF choice = "5" THEN Messages ELSE {""}) :
       \E detail_choice \in (IF _get_feedback_rating(choice, message) # NoRating
                             THEN DetailChoices ELSE {"1"}),
          outcome \in (IF _get_feedback_rating(choice, message) # NoRating
                       THEN FlowOutcomes ELSE {"200"}) :
       \E answers \in (IF detail_choice = "2" /\ outcome = "200"
                       THEN AnswerSequences ELSE {FullAnswers}) :
       \E pasted \in (IF /\ outcome = "200"
                         /\ log_file_path # NoLogPath
                         /\ answers = FullAnswers
                      THEN Pastes ELSE {""}) :
       \E r \in {maybe_prompt_feedback(fs, now, force, log_file_path, choice,
                                       message, detail_choice, answers,
                                       outcome, pasted, "none")} :
           /\ fs' = r.fs
           /\ posts' = r.posts
           /\ raised' = r.raised
           /\ flow' = r.flow

NextFeedback ==
    \/ FeedbackRecord
    \/ MaybePromptFeedback

SpecFeedback == InitFeedback /\ [][NextFeedback]_vars

Range(s) == {s[i] : i \in DOMAIN s}

\* C15: maybe_prompt_feedback makes no POST unless the user confirmed at a
\* consent prompt of its own, put after the rating was chosen; a rating alone
\* never causes a send.
C15_NoSendWithoutConfirmation ==
    flow.called /\ posts # <<>> => "consent" \in Range(flow.asked)

\* C19: a call that got past the gate leaves the cursor at the run count it
\* read when it started, and a non-forced call that follows it at the same
\* run count does not prompt.
C19_CursorStopsReprompt ==
    [][flow'.called =>
          /\ flow'.prompted => get_last_feedback_run_count(fs') = flow'.runs
          /\ flow.called /\ flow.prompted /\ ~flow'.force => ~flow'.prompted]_vars

\* A forced call prompted at one run; the non-forced call after it read the
\* cursor at 1 and did not prompt.
C19_Witness ==
    /\ flow.called
    /\ ~flow.force
    /\ ~flow.prompted
    /\ flow.runs = 1
    /\ flow.last = 1
    /\ get_last_feedback_run_count(fs) = 1

\* C20 as stated: when the flow ends with no rating chosen, the cursor keeps
\* the value it had before the call.
C20_NoRatingKeepsCursor ==
    flow.called /\ flow.prompted /\ flow.rating = NoRating
        => get_last_feedback_run_count(fs) = flow.last

\* C20: when the flow ends with no rating chosen, last_feedback_run_count
\* becomes the successful-run count read at the start of the call.
C20_NoRatingAdvancesCursor ==
    flow.called /\ flow.prompted /\ flow.rating = NoRating
        => get_last_feedback_run_count(fs) = flow.runs

\* The user cancelled at the rating menu of the first run's prompt.
C20_Witness ==
    /\ flow.called
    /\ flow.prompted
    /\ flow.rating = NoRating
    /\ flow.asked = <<"rating">>
    /\ flow.runs = 1
    /\ flow.last = 0
    /\ posts = <<>>
    /\ get_last_feedback_run_count(fs) = 1

InterruptedAt(prompt) == prompt \in Range(flow.interrupts)

\* the detailed fields named among the prompts at which the input was cut
CutFields == {k \in DOMAIN Fields : InterruptedAt(Fields[k])}

\* C21: Ctrl-C or end of input at any prompt of the feedback flow (rating
\* menu, custom text, detail level, each detailed field, log paste) is taken
\* as declining that prompt: maybe_prompt_feedback does not raise, the cursor
\* ends at the run count read at the start, and the state file is a whole
\* document with no temporary file left.
C21_InterruptIsSkip ==
    flow.called /\ flow.interrupts # <<>>
        => /\ ~raised
           /\ get_last_feedback_run_count(fs) = flow.runs
           /\ fs.temp = NoFile
           /\ fs.canon # NoFile
           /\ IsObjectText(fs.data[fs.canon])
           /\ fs.data[fs.canon] = Dump(LoadState(fs, FALSE))
           /\ InterruptedAt("rating") \/ InterruptedAt("message")
                  => flow.rating = NoRating /\ posts = <<>>
           /\ InterruptedAt("detail_level")
                  => posts # <<>> /\ posts[1].feedback_level = "quick"
           /\ \A i \in CutFields :
                  /\ posts # <<>>
                  /\ \A k \in DOMAIN Fields :
                         Fields[k] \in DOMAIN posts[1] <=> k < i
           /\ InterruptedAt("log_analysis") => Len(posts) = 1

\* The input was cut at the third detailed field: the feedback went out with
\* the two fields answered before it, and the cursor moved to the run count.
C21_Witness ==
    /\ flow.called
    /\ flow.interrupts = <<"research_area">>
    /\ flow.runs = 1
    /\ get_last_feedback_run_count(fs) = 1
    /\ Len(posts) = 1
    /\ posts[1].career_stage = "PhD"
    /\ DOMAIN posts[1] \cap Range(Fields) = {"career_stage", "experience_years"}

\* The input was cut at the detail-level prompt and again at the log paste.
C21_WitnessTwice ==
    /\ flow.called
    /\ flow.interrupts = <<"detail_level", "log_analysis">>
    /\ Len(posts) = 1
    /\ get_last_feedback_run_count(fs) = flow.runs

\* the positions of an effect in the order the call made them
TracePositions(effect) == {i \in DOMAIN flow.trace : flow.trace[i] = effect}

C38_CursorAtMostRuns ==
    get_last_feedback_run_count(fs) <= get_successful_runs(fs)

\* The prompt of the hundredth run has moved the cursor up to the run count.
C38_Witness ==
    /\ flow.called
    /\ flow.prompted
    /\ ~flow.force
    /\ get_successful_runs(fs) = 100
    /\ get_last_feedback_run_count(fs) = 100

\* A forced call moved the cursor and a download was recorded after it.
C38_WitnessBehind ==
    /\ get_successful_runs(fs) = 10
    /\ get_last_feedback_run_count(fs) = 9

(***************************************************************************)
(* SpecFollowUp: one process recording downloads and calling               *)
(* maybe_prompt_feedback with every combination of what decides the        *)
(* follow-up: the log path held in memory, what the POST returns, what is  *)
(* pasted at the log-analysis prompt.  `ret` keeps the call's inputs.      *)
(***************************************************************************)
MaxFollowUpRuns == 2      \* download events recorded in one behaviour

FollowUpRecord ==
    /\ TotalIssued < MaxFollowUpRuns
    /\ RecordDownloadEvent("ds1", TRUE, "200", FALSE, FALSE, "none")
    /\ attempts' = attempts

FollowUpCall ==
    /\ UNCHANGED <<timestamps, now, issued, procVars, attempts, session_id>>
    /\ \E force \in BOOLEAN, log_file_path \in LogPaths :
       \E choice \in (IF Prompting(force) THEN {"1", "5", "6"} ELSE {"6"}) :
       \E outcome \in (IF _get_feedback_rating(choice, "") # NoRating
                       THEN {"200", "429", "timeout"} ELSE {"200"}) :
       \E pasted \in (IF _get_feedback_rating(choice, "") # NoRating
                      THEN Pastes ELSE {""}) :
       \E r \in {maybe_prompt_feedback(fs, now, force, log_file_path, choice,
                                       "", "1", FullAnswers, outcome, pasted,
                                       "none")} :
           /\ fs' = r.fs
           /\ posts' = r.posts
           /\ raised' = r.raised
           /\ flow' = r.flow
           /\ ret' = [op |-> "maybe_prompt_feedback", state |-> DEFAULT_STATE,
                      ok |-> ~r.raised,
                      args |-> <<log_file_path, outcome, pasted>>]

NextFollowUp ==
    \/ FollowUpRecord
    \/ FollowUpCall

SpecFollowUp == Init /\ [][NextFollowUp]_vars

\* where an effect stands in the trace of the call that has just returned
Positions(trace, effect) == {i \in DOMAIN trace : trace[i] = effect}

\* C39: one maybe_prompt_feedback call attempts at most two POSTs, the main
\* feedback event first and the log-analysis follow-up second; the follow-up
\* is attempted only if the main POST returned success, a download log path
\* is set and the user supplied a non-empty log summary; the cursor is saved
\* before the log-analysis prompt is shown, and is on disk however that
\* prompt is left.
C39_AtMostTwoPostsInOrder ==
    [][ret'.op = "maybe_prompt_feedback" =>
          LET log_file_path == ret'.args[1]
              outcome == ret'.args[2]
              pasted == ret'.args[3]
              trace == flow'.trace
          IN  /\ Len(posts') <= 2
              /\ posts' # <<>> => posts'[1].type = "feedback"
              /\ Len(posts') = 2
                     => /\ posts'[2].type = "feedback_log_followup"
                        /\ outcome = "200"
                        /\ log_file_path # NoLogPath
                        /\ pasted \notin {"", Interrupt, "{}"}
              /\ Len(posts')
                     = Cardinality(Positions(trace, "post:feedback"))
                       + Cardinality(Positions(trace, "post:followup"))
              /\ \A i \in Positions(trace, "post:followup") :
                     \E j \in Positions(trace, "post:feedback") : j < i
              /\ \A i \in Positions(trace, "prompt:log_analysis") :
                     \E j \in Positions(trace, "save:cursor") : j < i
              /\ "log_analysis" \in Range(flow'.asked)
                     => get_last_feedback_run_count(fs') = flow'.runs]_vars

\* The follow-up went out after the main event, at the second run.
C39_Witness ==
    /\ ret.op = "maybe_prompt_feedback"
    /\ ret.args = <<"download.log", "200", JsonSummary>>
    /\ Len(posts) = 2
    /\ posts[1].type = "feedback"
    /\ posts[2].type = "feedback_log_followup"
    /\ flow.trace = <<"save:feedback_consent", "post:feedback", "save:cursor",
                      "prompt:log_analysis", "post:followup">>
    /\ get_successful_runs(fs) = 2
    /\ get_last_feedback_run_count(fs) = 2

\* The log-analysis prompt was left with an interrupt: one POST, and the
\* cursor is on disk.
C39_WitnessAborted ==
    /\ ret.op = "maybe_prompt_feedback"
    /\ ret.args = <<"download.log", "200", Interrupt>>
    /\ Len(posts) = 1
    /\ flow.interrupts = <<"log_analysis">>
    /\ get_successful_runs(fs) = 1
    /\ get_last_feedback_run_count(fs) = 1

\* The main POST was refused: no log-analysis prompt and no follow-up, though
\* a log path is set.
C39_WitnessRefused ==
    /\ ret.op = "maybe_prompt_feedback"
    /\ ret.args[1] = "download.log"
    /\ ret.args[2] = "429"
    /\ Len(posts) = 1
    /\ "log_analysis" \notin Range(flow.asked)

(***************************************************************************)
(* SpecSession: one process, with or without telemetry consent, recording  *)
(* downloads and asking for the telemetry status.                          *)
(***************************************************************************)
MaxSessionRuns == 2   \* download events recorded in one behaviour

InitSession ==
    /\ fs \in {EmptyFs, FsWith(ConsentedText)}
    /\ timestamps = <<>>
    /\ now = 0
    /\ posts = <<>>
    /\ raised = FALSE
    /\ ret = NoReturn
    /\ issued = NoneIssued
    /\ ProcInit

SessionRecord ==
    /\ TotalIssued < MaxSessionRuns
    /\ \E succeeded \in BOOLEAN, outcome \in {"200", "timeout"} :
           RecordDownloadEvent("ds1", succeeded, outcome, FALSE, FALSE, "none")
    /\ UNCHANGED attempts

GetTelemetryStatus ==
    /\ UNCHANGED <<fs, timestamps, now, issued, procVars, attempts, flow>>
    /\ posts' = <<>>
    /\ raised' = FALSE
    /\ \E uuid \in (IF session_id = NoSession THEN Tokens ELSE {session_id}) :
       \E r \in {get_telemetry_status(fs, session_id, uuid)} :
           /\ ret' = [op |-> "get_telemetry_status",
                      state |-> LoadState(fs, FALSE), ok |-> TRUE,
                      args |-> <<r.session_id>>]
           /\ session_id' = r.session_id

NextSession ==
    \/ SessionRecord
    \/ GetTelemetryStatus
    \/ ResetState

SpecSession == InitSession /\ [][NextSession]_vars

\* No line of any file names the session id or holds it as a key.
NotPersisted(f, sid) ==
    \A i \in Inodes : \A j \in DOMAIN f.data[i] :
        f.data[i][j].key \notin {"session_id", sid}

\* C25: the session id is generated on the first access, every later access
\* in the process gets the same id, and no operation writes it to the file.
C25_SessionIdStable ==
    [][/\ session_id # NoSession => session_id' = session_id
       /\ ret'.op = "get_telemetry_status"
              => /\ session_id' # NoSession
                 /\ ret'.args = <<session_id'>>
       /\ NotPersisted(fs', session_id')]_vars

\* Two events were sent and the status was asked for: three accesses, the id
\* still the one drawn at the first.
C25_Witness ==
    /\ ret.op = "get_telemetry_status"
    /\ ret.args = <<"0f9e8d7c">>
    /\ session_id = "0f9e8d7c"
    /\ issued["ds1"].success = 2
    /\ Len(timestamps) = 2

(***************************************************************************)
(* SpecNotice: the privacy notice over months.  The stored timestamp is    *)
(* kept as the instant it denotes, in ticks: isoformat() and               *)
(* fromisoformat() are exact to the microsecond.  A stored value that is   *)
(* no timestamp is NonNumeric.                                             *)
(***************************************************************************)
MaxThreshold == 101   \* thresholds asked about run up to this many days

\* the first tick at which n whole days have gone by
DayTicks(n) == (n * SecondsPerDay + TickSeconds - 1) \div TickSeconds

NoticeInstants ==
    {0, 1, DayTicks(1) - 1, DayTicks(1), DayTicks(2), DayTicks(99),
     DayTicks(100) - 1, DayTicks(100), DayTicks(100) + 1, DayTicks(101),
     DayTicks(200), DayTicks(201)}

Thresholds == {1, 2, 99, 100, MaxThreshold}

UnparseableNoticeText ==
    <<OpenBrace, [key |-> "last_privacy_notice_shown", val |-> NonNumeric],
      CloseBrace>>

InitNotice ==
    /\ fs \in {EmptyFs, FsWith(UnparseableNoticeText)}
    /\ timestamps = <<>>
    /\ now = 0
    /\ posts = <<>>
    /\ raised = FALSE
    /\ ret = NoReturn
    /\ issued = NoneIssued
    /\ ProcInit

ShouldShowPrivacyNotice ==
    /\ UNCHANGED <<fs, timestamps, now, posts, raised, issued, procVars, attempts, flow, session_id>>
    /\ \E days_threshold \in Thresholds :
           ret' = [op |-> "should_show_privacy_notice", state |-> DEFAULT_STATE,
                   ok |-> should_show_privacy_notice(fs, now, days_threshold),
                   args |-> <<days_threshold>>]

ShowPrivacyNoticeIfNeeded ==
    /\ UNCHANGED <<timestamps, now, posts, raised, issued, procVars, attempts, flow, session_id>>
    /\ fs' = _show_privacy_notice_if_needed(fs, now, "none")
    /\ ret' = [op |-> "_show_privacy_notice_if_needed", state |-> DEFAULT_STATE,
               ok |-> should_show_privacy_notice(fs, now, PrivacyNoticeDays),
               args |-> <<PrivacyNoticeDays>>]

\* Time passes until one of the instants looked at.
NoticeWait ==
    /\ UNCHANGED <<fs, timestamps, posts, raised, issued, procVars, attempts, flow, session_id>>
    /\ ret' = NoReturn
    /\ \E later \in NoticeInstants : later > now /\ now' = later

NextNotice ==
    \/ ShouldShowPrivacyNotice
    \/ ShowPrivacyNoticeIfNeeded
    \/ MarkPrivacyNoticeShown
    \/ NoticeWait

SpecNotice == InitNotice /\ [][NextNotice]_vars

LastShown(f) == LoadState(f, FALSE).last_privacy_notice_shown

\* d whole days, and less than d + 1, lie between the two instants
WholeDaysBetween(d, earlier, later) ==
    /\ d * SecondsPerDay <= (later - earlier) * TickSeconds
    /\ (later - earlier) * TickSeconds < (d + 1) * SecondsPerDay

\* Never shown, a stored value that cannot be parsed, or at least
\* days_threshold whole days since the stored instant.
NoticeDue(f, utcnow, days_threshold) ==
    \/ LastShown(f) = None
    \/ LastShown(f) = NonNumeric
    \/ \E d \in days_threshold..(MaxThreshold + PrivacyNoticeDays) :
           WholeDaysBetween(d, LastShown(f), utcnow)

\* C26: should_show_privacy_notice(threshold) is true when the notice was
\* never shown or the stored timestamp cannot be parsed, and otherwise exactly
\* when the whole days since the stored timestamp are >= threshold; right
\* after mark_privacy_notice_shown it is false for every threshold >= 1; and
\* the feedback flow shows the notice again only once 100 days have gone by.
C26_NoticeEveryHundredDays ==
    [][/\ ret'.op = "should_show_privacy_notice"
              => (ret'.ok <=> NoticeDue(fs', now', ret'.args[1]))
       /\ MarkPrivacyNoticeShown
              => \A days_threshold \in 1..MaxThreshold :
                     ~should_show_privacy_notice(fs', now', days_threshold)
       /\ ret'.op = "_show_privacy_notice_if_needed"
              => IF NoticeDue(fs, now, PrivacyNoticeDays)
                 THEN ret'.ok /\ LastShown(fs') = now'
                 ELSE ~ret'.ok /\ fs' = fs]_vars

\* The notice was shown at the start and is shown again exactly 100 days on.
C26_Witness ==
    /\ ret.op = "_show_privacy_notice_if_needed"
    /\ ret.ok
    /\ now = DayTicks(PrivacyNoticeDays)
    /\ LastShown(fs) = now

\* One tick short of 100 days the notice is not due.
C26_WitnessNotYet ==
    /\ ret.op = "should_show_privacy_notice"
    /\ ret.args = <<PrivacyNoticeDays>>
    /\ ~ret.ok
    /\ LastShown(fs) = 0
    /\ now = DayTicks(PrivacyNoticeDays) - 1

(***************************************************************************)
(* SpecSanitize: sanitize_text on log lines that hold a home-directory     *)
(* path, an IPv4 address and a labelled token, in three layouts.           *)
(***************************************************************************)

HomeAlice == <<"/", "h", "o", "m", "e", "/", "a", "l", "i", "c", "e">>

UsersBob == <<"/", "U", "s", "e", "r", "s", "/", "b", "o", "b">>

WindowsBob == <<"C", ":", "\\", "U", "s", "e", "r", "s", "\\", "b", "o", "b">>

WindowsSmith ==
    <<"C", ":", "\\", "U", "s", "e", "r", "s", "\\", "j", "s", "m", "i",
      "t", "h">>

UnixHomes == {HomeAlice, UsersBob}
WindowsHomes == {WindowsBob, WindowsSmith}
Homes == UnixHomes \cup WindowsHomes

\* what follows the home directory in the path
UnixTail == <<"/", "d", "a", "t", "a">>
WindowsTail == <<"\\", "d", "a", "t", "a">>
Tails(home) ==
    {<<>>, IF home \in WindowsHomes THEN WindowsTail ELSE UnixTail}

LoopbackNet == <<"1", "0", ".", "0", ".", "0", ".", "1">>
PrivateNet == <<"1", "9", "2", ".", "1", "6", "8", ".", "1", ".", "2", "0">>
Addresses == {LoopbackNet, PrivateNet}

\* a labelled token: the label with its separator, and the secret
TokenLabel == <<"t", "o", "k", "e", "n", "=">>
PasswordLabel == <<"p", "a", "s", "s", "w", "o", "r", "d", ":", " ">>
KeyLabel == <<"k", "e", "y", "=", "\"">>
TokenSecret == <<"a", "b", "c", "d", "e", "f", "g", "h", "1", "2", "3", "4">>
PasswordSecret ==
    <<"h", "u", "n", "t", "e", "r", "2", "2", "h", "u", "n", "t", "e", "r">>
KeySecret == <<"A", "b", "C", "d", "1", "2", "3", "4", "e", "f", "g", "h">>
LabelledTokens ==
    {[label |-> TokenLabel, secret |-> TokenSecret],
     [label |-> PasswordLabel, secret |-> PasswordSecret],
     [label |-> KeyLabel, secret |-> KeySecret]}

ErrorPrefix == <<"E", "R", "R", "O", "R", " ">>
From == <<" ", "f", "r", "o", "m", " ">>
Space == <<" ">>
Colon == <<":">>

Layouts == {"path first", "token first", "address first"}

LogLine(layout, path, address, token) ==
    IF layout = "path first"
    THEN ErrorPrefix \o path \o From \o address \o Space \o token
    ELSE IF layout = "token first"
    THEN token \o Space \o address \o Space \o path
    ELSE ErrorPrefix \o address \o Colon \o path \o Space \o token

HomePlaceholder == PII_PATTERNS[1].replacement
IpPlaceholder == PII_PATTERNS[5].replacement
TokenPlaceholder == PII_PATTERNS[9].replacement

\* ret before the call: the line, and the three substrings it was made of
LineOf(layout, home, tail, address, labelled) ==
    [op |-> "line", state |-> DEFAULT_STATE, ok |-> TRUE,
     args |-> <<LogLine(layout, home \o tail, address,
                        labelled.label \o labelled.secret)>>,
     home |-> home, address |-> address, secret |-> labelled.secret,
     out |-> <<>>]

InitSanitize ==
    /\ fs = EmptyFs
    /\ timestamps = <<>>
    /\ now = 0
    /\ posts = <<>>
    /\ raised = FALSE
    /\ \E layout \in Layouts, home \in Homes, address \in Addresses,
          labelled \in LabelledTokens :
       \E tail \in Tails(home) :
           ret = LineOf(layout, home, tail, address, labelled)
    /\ issued = NoneIssued
    /\ ProcInit

SanitizeText ==
    /\ UNCHANGED <<fs, timestamps, now, posts, raised, issued, procVars, attempts, flow, session_id>>
    /\ ret.op = "line"
    /\ ret' = [ret EXCEPT !.op = "sanitize_text",
                          !.out = sanitize_text(ret.args[1])]

NextSanitize == SanitizeText

SpecSanitize == InitSanitize /\ [][NextSanitize]_vars

\* C28: sanitize applied to a line that holds a home-directory path, an IPv4
\* address and a labelled token replaces all three with [HOME], [IP] and
\* [TOKEN], and its output holds none of the three original substrings.
C28_SanitizeReplacesAllThree ==
    ret.op = "sanitize_text"
        => /\ Contains(ret.out, HomePlaceholder)
           /\ Contains(ret.out, IpPlaceholder)
           /\ Contains(ret.out, TokenPlaceholder)
           /\ ~Contains(ret.out, ret.home)
           /\ ~Contains(ret.out, ret.address)
           /\ ~Contains(ret.out, ret.secret)

\* The same for the lines whose home directory is a Unix one.
C28_UnixLinesSanitized ==
    ret.op = "sanitize_text" /\ ret.home \in UnixHomes
        => /\ Contains(ret.out, HomePlaceholder)
           /\ Contains(ret.out, IpPlaceholder)
           /\ Contains(ret.out, TokenPlaceholder)
           /\ ~Contains(ret.out, ret.home)
           /\ ~Contains(ret.out, ret.address)
           /\ ~Contains(ret.out, ret.secret)

\* A Windows home directory followed by a space: the match runs on to the
\* end of the line, and the address and the token get no placeholder.
C28_WindowsLineSwallowed ==
    /\ ret.op = "sanitize_text"
    /\ ret.args = <<LogLine("path first", WindowsBob, LoopbackNet,
                            TokenLabel \o TokenSecret)>>
    /\ ret.out = ErrorPrefix \o HomePlaceholder

(***************************************************************************)
(* The log analysis the feedback flow sends, read as text.                 *)
(***************************************************************************)
\* the characters of a paste
Chars(pasted) ==
    IF pasted = PiiPaste THEN ErrorPrefix \o HomeAlice \o From \o LoopbackNet
    ELSE IF pasted = "no json" THEN <<"n", "o", " ", "j", "s", "o", "n">>
    ELSE IF pasted = JsonSummary
    THEN <<"{", "\"", "e", "r", "r", "o", "r", "_", "s", "u", "m", "m", "a",
           "r", "y", "\"", ":", " ", "\"", "n", "o", "n", "e", "\"", "}">>
    ELSE IF pasted = "{}" THEN <<"{", "}">>
    ELSE <<>>

FollowUps == {i \in DOMAIN posts : posts[i].type = "feedback_log_followup"}

\* C27: every log-derived text the feedback flow sends to the endpoint, the
\* log-analysis follow-up built from what the user pasted included, has
\* passed through sanitize_text before it is sent.
C27_FollowUpIsSanitized ==
    \A i \in FollowUps :
        \E pasted \in Pastes \ {Interrupt} :
            Chars(posts[i].log_analysis) = sanitize_text(Chars(pasted))

\* The follow-up carries the pasted line as it was typed, home directory and
\* address included.
C27_RawPasteSent ==
    /\ flow.called
    /\ Len(posts) = 2
    /\ posts[2].type = "feedback_log_followup"
    /\ posts[2].log_analysis = PiiPaste
    /\ Contains(Chars(posts[2].log_analysis), HomeAlice)
    /\ Contains(Chars(posts[2].log_analysis), LoopbackNet)
    /\ sanitize_text(Chars(PiiPaste))
           = ErrorPrefix \o HomePlaceholder \o From \o IpPlaceholder

(***************************************************************************)
(* SpecCli: one pull invocation after the other, by the --pull option or   *)
(* the pull subcommand, on a fresh installation or one that has granted    *)
(* telemetry consent, on a well-behaved disk.                              *)
(***************************************************************************)
MaxCliRuns == 2       \* download events recorded in one behaviour

InitCli ==
    /\ fs \in {EmptyFs, FsWith(ConsentedText)}
    /\ timestamps = <<>>
    /\ now = 0
    /\ posts = <<>>
    /\ raised = FALSE
    /\ ret = NoReturn
    /\ issued = NoneIssued
    /\ ProcInit

\* the events the invocation recorded, counted per dataset
CountedAll(dataset_id, events) ==
    [issued EXCEPT ![dataset_id] =
        [success |-> @.success + Cardinality({i \in DOMAIN events : events[i]}),
         fail |-> @.fail + Cardinality({i \in DOMAIN events : ~events[i]})]]

PullInvocation ==
    /\ UNCHANGED <<now, procVars, attempts>>
    /\ TotalIssued < MaxCliRuns
    /\ \E entry \in Entries, dry_run \in BOOLEAN,
          dataset \in DatasetRecords \cup {NoDatasetRecord} :
       \E target_path \in (IF entry = "--pull" THEN {NoPath, "data"}
                           ELSE {"data"}),
          force \in (IF entry = "pull" THEN BOOLEAN ELSE {FALSE}) :
       \E confirmed \in (IF /\ dataset # NoDatasetRecord
                            /\ target_path # NoPath
                            /\ NeedsConfirmation(entry, dry_run, force)
                         THEN BOOLEAN ELSE {TRUE}) :
       \E authenticated \in (IF /\ dataset.auth_required
                                /\ dataset.download_method # "ida_loni"
                                /\ confirmed
                             THEN BOOLEAN ELSE {TRUE}) :
       \E stage \in {PullStage(entry, target_path, dataset, dry_run, force,
                               confirmed, authenticated)} :
       \E success \in (IF stage = "downloaded" THEN BOOLEAN ELSE {FALSE}) :
       \E answer \in (IF /\ success
                         /\ ~dry_run
                         /\ get_successful_runs(fs) = 0
                         /\ ~was_telemetry_consent_asked(fs)
                      THEN {"yes", "no", "interrupt", "eof"} ELSE {"no"}),
          outcome \in (IF stage = "downloaded" /\ ~dry_run
                       THEN FlowOutcomes ELSE {"200"}),
          log_file_path \in (IF success /\ ~dry_run THEN LogPaths
                             ELSE {NoLogPath}),
          choice \in (IF success /\ ~dry_run THEN {"1", "6"} ELSE {"6"}) :
       \E r \in {pull(fs, timestamps, now, stage, "ds1", dry_run, success,
                      answer, outcome, log_file_path, choice)} :
           /\ fs' = r.fs
           /\ timestamps' = r.timestamps
           /\ posts' = r.posts
           /\ raised' = r.raised
           /\ flow' = r.flow
           /\ issued' = CountedAll("ds1", r.events)
           /\ ret' = [op |-> "pull", state |-> DEFAULT_STATE,
                      ok |-> r.exit = 0,
                      args |-> <<entry, stage, dry_run, success>>,
                      events |-> r.events, consent |-> r.consent]
           /\ \E uuid \in (IF r.posts # <<>> /\ session_id = NoSession
                          THEN Tokens ELSE {session_id}) :
                  session_id' = IF \E i \in DOMAIN r.posts :
                                      "dataset" \in DOMAIN r.posts[i]
                                THEN _get_session_id(session_id, uuid)
                                ELSE session_id

NextCli == PullInvocation

SpecCli == InitCli /\ [][NextCli]_vars

\* C30: a pull invocation, by the --pull option or the pull subcommand,
\* calls record_download_event exactly once when the download step ran and
\* dry_run is false, with succeeded equal to the boolean the download step
\* returned, and not at all otherwise (dry run, unknown dataset, declined
\* confirmation, authentication failure); a dry run leaves the state file as
\* it was.
C30_OneEventPerRealDownload ==
    [][ret'.op = "pull" =>
          LET stage == ret'.args[2]
              dry_run == ret'.args[3]
              success == ret'.args[4]
          IN  /\ ret'.events = IF stage = "downloaded" /\ ~dry_run
                               THEN <<success>> ELSE <<>>
              /\ issued' = IF stage = "downloaded" /\ ~dry_run
                           THEN Counted("ds1", success) ELSE issued
              /\ stage = "downloaded" /\ ~dry_run
                     => /\ success
                            => get_successful_runs(fs')
                                   = get_successful_runs(fs) + 1
                        /\ ~success
                            => get_failed_runs(fs') = get_failed_runs(fs) + 1
              /\ dry_run \/ stage # "downloaded"
                     => fs' = fs /\ posts' = <<>>]_vars

\* A failed download by the subcommand after a successful one: one failure
\* recorded, exit status 1.
C30_Witness ==
    /\ ret.op = "pull"
    /\ ret.args = <<"pull", "downloaded", FALSE, FALSE>>
    /\ ret.events = <<FALSE>>
    /\ ~ret.ok
    /\ issued["ds1"] = [success |-> 1, fail |-> 1]
    /\ get_failed_runs(fs) = 1
    /\ get_successful_runs(fs) = 1

\* A dry run by the option after a successful download: nothing recorded.
C30_WitnessDryRun ==
    /\ ret.op = "pull"
    /\ ret.args = <<"--pull", "downloaded", TRUE, TRUE>>
    /\ ret.events = <<>>
    /\ issued["ds1"] = [success |-> 1, fail |-> 0]
    /\ get_successful_runs(fs) = 1

(***************************************************************************)
(* SpecSchedule: pulls and forced feedback requests (`neurodatahub         *)
(* feedback`, `--feedback`), one invocation after the other, over the run   *)
(* counts of the feedback schedule.  A behaviour starts fresh or from the  *)
(* state file a fresh installation holds once earlier prompts are behind   *)
(* it; telemetry was declined, so that only feedback goes out.             *)
(***************************************************************************)
MaxScheduleRuns == 10     \* download events recorded in one behaviour

\* the file after `runs` successful downloads of ds1 with the last prompt
\* shown at run `cursor`
ScheduleText(runs, cursor) ==
    Dump([DEFAULT_STATE EXCEPT
             !.successful_runs = runs,
             !.per_dataset = ("ds1" :> [success |-> runs, fail |-> 0]),
             !.last_feedback_run_count = cursor,
             !.telemetry_consent_asked = TRUE,
             !.last_privacy_notice_shown = 0])

\* <<runs, cursor>>: after the scheduled prompts at 3, 10, 30, 50 and 100,
\* and after a forced request at 9 and at 49
ScheduleStarts ==
    {<<8, 3>>, <<28, 10>>, <<48, 30>>, <<98, 50>>, <<148, 100>>,
     <<9, 9>>, <<49, 49>>}

InitSchedule ==
    /\ fs \in {EmptyFs}
              \cup {FsWith(ScheduleText(s[1], s[2])) : s \in ScheduleStarts}
    /\ timestamps = <<>>
    /\ now = 0
    /\ posts = <<>>
    /\ raised = FALSE
    /\ ret = NoReturn
    /\ issued = NoneIssued
    /\ ProcInit

\* a pull that reaches the download step (cli.py:185, 365)
SchedulePull ==
    /\ UNCHANGED <<now, procVars, attempts, session_id>>
    /\ TotalIssued < MaxScheduleRuns
    /\ \E entry \in Entries, dry_run \in BOOLEAN, success \in BOOLEAN :
       \E choice \in (IF success /\ ~dry_run THEN {"1", "6"} ELSE {"6"}) :
       \E r \in {pull(fs, timestamps, now, "downloaded", "ds1", dry_run,
                      success, "no", "200", NoLogPath, choice)} :
           /\ fs' = r.fs
           /\ timestamps' = r.timestamps
           /\ posts' = r.posts
           /\ raised' = r.raised
           /\ flow' = r.flow
           /\ issued' = CountedAll("ds1", r.events)
           /\ ret' = [op |-> "pull", state |-> DEFAULT_STATE,
                      ok |-> r.exit = 0,
                      args |-> <<entry, "downloaded", dry_run, success>>,
                      events |-> r.events, consent |-> r.consent]

\* `neurodatahub feedback` and `neurodatahub --feedback` (cli.py:132, 415)
ForcedFeedback ==
    /\ UNCHANGED <<timestamps, now, issued, procVars, attempts, session_id>>
    /\ \E choice \in {"1", "6"} :
       \E r \in {maybe_prompt_feedback(fs, now, TRUE, NoLogPath, choice, "",
                                       "1", FullAnswers, "200", "", "none")} :
           /\ fs' = r.fs
           /\ posts' = r.posts
           /\ raised' = r.raised
           /\ flow' = r.flow
           /\ ret' = [op |-> "feedback", state |-> DEFAULT_STATE,
                      ok |-> TRUE, args |-> <<>>, events |-> <<>>,
                      consent |-> NotShown]

NextSchedule ==
    \/ SchedulePull
    \/ ForcedFeedback

SpecSchedule == InitSchedule /\ [][NextSchedule]_vars

\* the run counts at which feedback is due
Scheduled(n) == n \in {1, 3, 10, 30, 50} \/ (n > 50 /\ n % 50 = 0)

\* C31: over sequential pulls, with forced feedback requests in between, the
\* non-forced feedback prompt is shown at a pull exactly when the pull is a
\* successful download that is no dry run and brings successful_runs to 1, 3,
\* 10, 30, 50 or a multiple of 50 above 50; each such download raises the
\* count by one, so each value is prompted at once; a forced request always
\* prompts and leaves the count alone.
C31_PromptExactlyOnSchedule ==
    [][/\ ret'.op = "pull"
           => LET dry_run == ret'.args[3]
                  success == ret'.args[4]
              IN  /\ flow'.prompted
                         <=> /\ success
                             /\ ~dry_run
                             /\ Scheduled(get_successful_runs(fs'))
                  /\ flow'.prompted => ~flow'.force
                  /\ success /\ ~dry_run
                         => get_successful_runs(fs')
                                = get_successful_runs(fs) + 1
                  /\ ~(success /\ ~dry_run)
                         => get_successful_runs(fs') = get_successful_runs(fs)
       /\ ret'.op = "feedback"
           => /\ flow'.prompted
              /\ flow'.force
              /\ get_successful_runs(fs') = get_successful_runs(fs)]_vars

\* The download that brings the count to 10 prompts although a forced
\* request has just moved the cursor to 9.
C31_Witness ==
    /\ ret.op = "pull"
    /\ flow.prompted
    /\ ~flow.force
    /\ flow.runs = 10
    /\ flow.last = 9

\* The hundredth download prompts.
C31_WitnessHundred ==
    /\ ret.op = "pull"
    /\ flow.prompted
    /\ get_successful_runs(fs) = 100

\* The fourth download from fresh does not prompt; the cursor is where the
\* prompt of the third left it.
C31_WitnessNoPrompt ==
    /\ ret.op = "pull"
    /\ ret.args[4]
    /\ ~ret.args[3]
    /\ ~flow.prompted
    /\ issued["ds1"].success = 4
    /\ get_successful_runs(fs) = 4
    /\ get_last_feedback_run_count(fs) = 3

\* C35: over sequential pull invocations without a reset, the telemetry
\* consent prompt is shown only when successful_runs is 0 and the question
\* was not asked before; however it is left (yes, no, interrupt, end of
\* input) the invocation persists telemetry_consent_asked, with consent given
\* only on yes, and records the download after the answer, so that a yes
\* already covers the first download; telemetry_consent_asked stays true, so
\* the prompt is shown at most once.
C35_ConsentPromptAtMostOnce ==
    [][ret'.op = "pull" =>
          /\ was_telemetry_consent_asked(fs)
                 => /\ ret'.consent = NotShown
                    /\ was_telemetry_consent_asked(fs')
          /\ ret'.consent # NotShown
                 => /\ get_successful_runs(fs) = 0
                    /\ ~was_telemetry_consent_asked(fs)
                    /\ was_telemetry_consent_asked(fs')
                    /\ has_telemetry_consent(fs', FALSE)
                           <=> ret'.consent = "yes"
                    /\ ret'.events = <<TRUE>>
                    /\ get_successful_runs(fs') = 1
                    /\ (posts' # <<>> /\ "dataset" \in DOMAIN posts'[1])
                           <=> ret'.consent = "yes"]_vars

\* The prompt was left with an interrupt at the first successful download:
\* asked without given, the download counted, nothing sent.
C35_Witness ==
    /\ ret.op = "pull"
    /\ ret.consent = "interrupt"
    /\ was_telemetry_consent_asked(fs)
    /\ ~has_telemetry_consent(fs, FALSE)
    /\ get_successful_runs(fs) = 1
    /\ posts = <<>>

\* The second successful download after a yes: no prompt.
C35_WitnessSecond ==
    /\ ret.op = "pull"
    /\ ret.consent = NotShown
    /\ ret.events = <<TRUE>>
    /\ has_telemetry_consent(fs, FALSE)
    /\ get_successful_runs(fs) = 2
    /\ issued["ds1"].success = 2

(***************************************************************************)
(* SpecConc: several CLI processes on one state file, each making one      *)
(* call, interleaved at the system calls of load_state and save_state      *)
(* (POSIX: fcntl.flock, open(..., "w") truncating before the lock is       *)
(* asked for, rename replacing the directory entry).                       *)
(***************************************************************************)
OneRun == Incremented(DEFAULT_STATE, "successful_runs", "success", "ds1")

InitConc ==
    /\ \/ /\ fs = EmptyFs
          /\ issued = NoneIssued
          /\ passed = {}
       \/ /\ fs = FsWith(Dump(OneRun))
          /\ issued = [NoneIssued EXCEPT !["ds1"].success = 1]
          /\ passed = {OneRun}
    /\ timestamps = <<>>
    /\ now = 0
    /\ posts = <<>>
    /\ raised = FALSE
    /\ ret = NoReturn
    /\ pc = [p \in Procs |-> "idle"]
    /\ job = [p \in Procs |-> "none"]
    /\ mem = [p \in Procs |-> DEFAULT_STATE]
    /\ fd = [p \in Procs |-> NoFile]
    /\ lock = [i \in Inodes |-> 0]
    /\ attempts = <<>>
    /\ flow = NoFlow
    /\ session_id = NoSession

seqVars == <<timestamps, now, posts, raised, ret, attempts, flow, session_id>>

Held(fds) == {fds[p] : p \in Procs} \ {NoFile}

\* The record the call goes on with once load_state has returned `state`.
AfterLoad(p, state) ==
    IF job[p] = "increment"
    THEN Incremented(state, "successful_runs", "success", "ds1")
    ELSE state

AfterLoadPc(p) == IF job[p] = "increment" THEN "open_w" ELSE "done"

\* A process starts increment_successful_run("ds1") or a bare load_state().
Start(p) ==
    /\ pc[p] = "idle"
    /\ \E j \in {"increment", "load"} :
           /\ job' = [job EXCEPT ![p] = j]
           /\ issued' = IF j = "increment" THEN Counted("ds1", TRUE) ELSE issued
    /\ pc' = [pc EXCEPT ![p] = "exists"]
    /\ UNCHANGED <<fs, mem, fd, lock, passed, seqVars>>

\* state.py:117 if not self.state_file.exists()
Exists(p) ==
    /\ pc[p] = "exists"
    /\ IF fs.canon = NoFile
       THEN /\ mem' = [mem EXCEPT ![p] = AfterLoad(p, DEFAULT_STATE)]
            /\ pc' = [pc EXCEPT ![p] = AfterLoadPc(p)]
       ELSE /\ pc' = [pc EXCEPT ![p] = "open_r"]
            /\ mem' = mem
    /\ UNCHANGED <<fs, job, fd, lock, passed, issued, seqVars>>

\* state.py:122 open(self.state_file, "r")
OpenR(p) ==
    /\ pc[p] = "open_r"
    /\ fd' = [fd EXCEPT ![p] = fs.canon]
    /\ pc' = [pc EXCEPT ![p] = "lock_r"]
    /\ UNCHANGED <<fs, job, mem, lock, passed, issued, seqVars>>

\* state.py:88 fcntl.flock(fd, LOCK_EX): waits while another process holds it
Flock(p) ==
    /\ pc[p] \in {"lock_r", "lock_w"}
    /\ lock[fd[p]] = 0
    /\ lock' = [lock EXCEPT ![fd[p]] = p]
    /\ pc' = [pc EXCEPT ![p] = IF pc[p] = "lock_r" THEN "read" ELSE "write"]
    /\ UNCHANGED <<fs, job, mem, fd, passed, issued, seqVars>>

\* state.py:125-131 json.load, the merge, the unlock and the close
Read(p) ==
    /\ pc[p] = "read"
    /\ mem' = [mem EXCEPT ![p] = AfterLoad(p, Loaded(fs.data[fd[p]]))]
    /\ lock' = [lock EXCEPT ![fd[p]] = 0]
    /\ fd' = [fd EXCEPT ![p] = NoFile]
    /\ fs' = Gc(fs, Held(fd'))
    /\ pc' = [pc EXCEPT ![p] = AfterLoadPc(p)]
    /\ UNCHANGED <<job, passed, issued, seqVars>>

\* state.py:152 open(temp_file, "w"), at the start of save_state(mem[p])
OpenW(p) ==
    /\ pc[p] = "open_w"
    /\ \E opened \in {FsOpenW(fs, Held(fd))} :
           /\ fs' = opened
           /\ fd' = [fd EXCEPT ![p] = opened.temp]
    /\ passed' = passed \cup {mem[p]}
    /\ pc' = [pc EXCEPT ![p] = "lock_w"]
    /\ UNCHANGED <<job, mem, lock, issued, seqVars>>

\* state.py:155-159 json.dump, flush, fsync, unlock, close: the text reaches
\* the file in one write, or the first half of it does (pc "write2")
WriteAll(p) ==
    /\ pc[p] = "write"
    /\ lock' = [lock EXCEPT ![fd[p]] = 0]
    /\ fd' = [fd EXCEPT ![p] = NoFile]
    /\ fs' = Gc(FsWrite(fs, fd[p], 0, Dump(mem[p])), Held(fd'))
    /\ pc' = [pc EXCEPT ![p] = "replace"]
    /\ UNCHANGED <<job, mem, passed, issued, seqVars>>

WriteHalf(p) ==
    /\ pc[p] = "write"
    /\ fs' = FsWrite(fs, fd[p], 0,
                     SubSeq(Dump(mem[p]), 1, Len(Dump(mem[p])) \div 2))
    /\ pc' = [pc EXCEPT ![p] = "write2"]
    /\ UNCHANGED <<job, mem, fd, lock, passed, issued, seqVars>>

WriteRest(p) ==
    /\ pc[p] = "write2"
    /\ lock' = [lock EXCEPT ![fd[p]] = 0]
    /\ fd' = [fd EXCEPT ![p] = NoFile]
    /\ \E text \in {Dump(mem[p])} :
           fs' = Gc(FsWrite(fs, fd[p], Len(text) \div 2,
                            SubSeq(text, Len(text) \div 2 + 1, Len(text))),
                    Held(fd'))
    /\ pc' = [pc EXCEPT ![p] = "replace"]
    /\ UNCHANGED <<job, mem, passed, issued, seqVars>>

\* state.py:162 temp_file.replace(self.state_file); FileNotFoundError when
\* another process has renamed the temporary file away
Replace(p) ==
    /\ pc[p] = "replace"
    /\ IF fs.temp # NoFile
       THEN /\ fs' = Gc(FsReplace(fs), Held(fd))
            /\ pc' = [pc EXCEPT ![p] = "done"]
       ELSE /\ fs' = fs
            /\ pc' = [pc EXCEPT ![p] = "cleanup"]
    /\ UNCHANGED <<job, mem, fd, lock, passed, issued, seqVars>>

\* state.py:169-171 if temp_file.exists(): temp_file.unlink()
Cleanup(p) ==
    /\ pc[p] = "cleanup"
    /\ fs' = Gc(FsUnlinkTemp(fs), Held(fd))
    /\ pc' = [pc EXCEPT ![p] = "done"]
    /\ UNCHANGED <<job, mem, fd, lock, passed, issued, seqVars>>

NextConc ==
    \E p \in Procs :
        \/ Start(p)
        \/ Exists(p)
        \/ OpenR(p)
        \/ Flock(p)
        \/ Read(p)
        \/ OpenW(p)
        \/ WriteAll(p)
        \/ WriteHalf(p)
        \/ WriteRest(p)
        \/ Replace(p)
        \/ Cleanup(p)

SpecConc == InitConc /\ [][NextConc]_vars

AllDone == \A p \in Procs : pc[p] = "done"

\* C4: whatever the interleaving of concurrent saves and loads, state.json
\* is absent or holds the complete serialization of one record that was
\* passed to save_state.
C4_NeverPartiallyWritten ==
    fs.canon = NoFile \/ \E state \in passed : fs.data[fs.canon] = Dump(state)

\* C5: read-modify-write calls are atomic with respect to one another: once
\* every process has returned, the persisted successful_runs counts every
\* increment that was issued.
C5_NoLostUpdate ==
    AllDone => get_successful_runs(fs) = issued["ds1"].success

\* the processes that ran increment_successful_run, and the counter they
\* started from
Incrementers == {p \in Procs : job[p] = "increment"}
StartCount == issued["ds1"].success - Cardinality(Incrementers)

\* C32: when k processes have each run one increment_successful_run
\* concurrently on a state whose counter was n, the persisted successful_runs
\* lies between n + 1 and n + k, whatever the interleaving.
C32_LostUpdatesBounded ==
    AllDone /\ Incrementers # {}
        => /\ get_successful_runs(fs) >= StartCount + 1
           /\ get_successful_runs(fs) <= StartCount + Cardinality(Incrementers)

\* Two increments on a counter of 1, one of them lost.
C32_Witness ==
    /\ AllDone
    /\ Cardinality(Incrementers) = 2
    /\ StartCount = 1
    /\ get_successful_runs(fs) = 2

\* Two increments on a counter of 1, both counted.
C32_WitnessBoth ==
    /\ AllDone
    /\ Cardinality(Incrementers) = 2
    /\ StartCount = 1
    /\ get_successful_runs(fs) = 3

====
